---- MODULE Spec2Model ----
(***************************************************************************)
(* Verification model of the TurboDbx schema transformation engine:        *)
(*   core/src/utils/dataMapper.ts      name and type mapping helpers       *)
(*   core/src/converters/sqlToNoSql.ts DDL text -> document schema         *)
(*   core/src/converters/noSqlToSql.ts document schema -> DDL text         *)
(*   backend/.../intelligentSqlToNoSqlTransformer.ts relationship-aware    *)
(*                                     relational -> document generation   *)
(*   backend/src/schema_parser         validator.ts, parseToJson.ts        *)
(*   backend/src/routes/convert.ts     two-phase and direct convert routes *)
(*   core/src/converters/jsonConverter.ts, backend/.../sqlExtractor.ts     *)
(*                                     schema inference from samples,      *)
(*                                     JSON data -> DDL text               *)
(*   backend/src/utils/typeMapper.ts   native -> document type mapping     *)
(*   backend/src/routes/analyze.ts     circular foreign-key dependencies   *)
(*                                                                         *)
(* Identifiers and default values are sequences of one-character strings,  *)
(* so that the regular-expression rewrites of the source are computed      *)
(* character by character.                                                 *)
(***************************************************************************)
EXTENDS Integers, Sequences, FiniteSets, TLC

VARIABLES
    pc,          \* which specification is running and how far it got
    sanIn,       \* dataMapper: pair of field names handed to the column namer
    sanOpts,     \* dataMapper: the preserveCase option
    sanOut,      \* dataMapper: pair of generated column identifiers
    schema,      \* intelligentSqlToNoSql: the SqlSchema argument (its tables)
    options,     \* intelligentSqlToNoSql: the IntelligentTransformOptions
    relationships,      \* RelationshipMetadata[] of analyzeRelationships, as
                        \* left by determineEmbeddingStrategy
    junctionTables,     \* Set<string> of detectJunctionTables
    collections,        \* returned NoSqlSchema.collections
    nosqlRelationships, \* returned NoSqlSchema.relationships
    noSqlSchema,        \* convertNoSqlToSql: the NoSqlSchema argument (collections)
    sqlSchema,          \* convertSqlToNoSql: the DDL text argument
    conversionOptions,  \* ConversionOptions plus the dialect argument
    sqlResult,          \* ConversionResult of convertNoSqlToSql
    noSqlResult,        \* ConversionResult of convertSqlToNoSql
    jsonData,           \* convertJsonToSql: the jsonData argument
    stdSchema,          \* validateStandardizedSchema: the schema argument
    validation,         \* ValidationResult of validateStandardizedSchema
    request,            \* convert route: the ConvertRequest in req.body
    apiReply,           \* convert route: how the extraction service call settled
    standardizedSchema, \* convert route: the handler's const of that name, <<>>
                        \* until parseToJson has returned, then <<schema>>
    phase2Calls,        \* convert route: number of calls of convertFromJson
    response,           \* convert route: what res.json was given
    samples,            \* schema inference: the sample records
    inferredSchema,     \* JsonSchema of inferSchemaFromJson
    inferredCollection, \* NoSqlCollection of inferSchemaFromData
    nativeType,         \* type mapping: the native type name
    mappedType,         \* type mapping: the document types it is mapped to
    analyzedSchema,     \* detectCircularDependencies: the tables of the SqlSchema
    cycles              \* detectCircularDependencies: the returned list

sanVars == <<sanIn, sanOpts, sanOut>>
intelVars == <<schema, options, relationships, junctionTables, collections,
               nosqlRelationships>>
coreVars == <<noSqlSchema, sqlSchema, conversionOptions, sqlResult, noSqlResult,
              jsonData>>
backendVars == <<stdSchema, validation, request, apiReply, standardizedSchema,
                 phase2Calls, response, samples, inferredSchema, inferredCollection,
                 nativeType, mappedType, analyzedSchema, cycles>>
vars == <<pc, sanVars, intelVars, coreVars, backendVars>>

(***************************************************************************)
(* Characters                                                              *)
(***************************************************************************)
LowerLetters == <<"a","b","c","d","e","f","g","h","i","j","k","l","m",
                  "n","o","p","q","r","s","t","u","v","w","x","y","z">>
UpperLetters == <<"A","B","C","D","E","F","G","H","I","J","K","L","M",
                  "N","O","P","Q","R","S","T","U","V","W","X","Y","Z">>

LowerSet == {LowerLetters[i] : i \in 1..26}
UpperSet == {UpperLetters[i] : i \in 1..26}
LowerOf == [c \in UpperSet |-> LowerLetters[CHOOSE i \in 1..26 : UpperLetters[i] = c]]
UpperOf == [c \in LowerSet |-> UpperLetters[CHOOSE i \in 1..26 : LowerLetters[i] = c]]

IsLower(c) == c \in LowerSet
IsUpper(c) == c \in UpperSet
IsDigit(c) == c \in {"0","1","2","3","4","5","6","7","8","9"}
\* the class [a-zA-Z0-9_]
IsWordChar(c) == IsLower(c) \/ IsUpper(c) \/ IsDigit(c) \/ c = "_"

CharToLower(c) == IF IsUpper(c) THEN LowerOf[c] ELSE c
CharToUpper(c) == IF IsLower(c) THEN UpperOf[c] ELSE c

\* String.prototype.toLowerCase / toUpperCase
toLowerCase(s) == [i \in 1..Len(s) |-> CharToLower(s[i])]
toUpperCase(s) == [i \in 1..Len(s) |-> CharToUpper(s[i])]

\* String.prototype.endsWith
endsWith(s, suf) ==
    /\ Len(suf) <= Len(s)
    /\ SubSeq(s, Len(s) - Len(suf) + 1, Len(s)) = suf

\* String.prototype.slice(0, -n)
sliceEnd(s, n) == SubSeq(s, 1, Len(s) - n)

\* String.prototype.includes
includes(s, sub) ==
    \E i \in 1..(Len(s) - Len(sub) + 1) : SubSeq(s, i, i + Len(sub) - 1) = sub

(***************************************************************************)
(* dataMapper.ts: names                                                    *)
(***************************************************************************)
\* .replace(/_([a-z])/g, (_, letter) => letter.toUpperCase()), scanning left
\* to right from position i without overlap
RECURSIVE CamelFrom(_, _)
CamelFrom(s, i) ==
    IF i > Len(s) THEN <<>>
    ELSE IF s[i] = "_" /\ i < Len(s) /\ IsLower(s[i+1])
         THEN <<CharToUpper(s[i+1])>> \o CamelFrom(s, i + 2)
         ELSE <<s[i]>> \o CamelFrom(s, i + 1)

sqlToNoSqlFieldName(sqlName) == CamelFrom(toLowerCase(sqlName), 1)

\* .replace(/([A-Z])/g, '_$1')
RECURSIVE SnakeFrom(_, _)
SnakeFrom(s, i) ==
    IF i > Len(s) THEN <<>>
    ELSE IF IsUpper(s[i]) THEN <<"_", s[i]>> \o SnakeFrom(s, i + 1)
         ELSE <<s[i]>> \o SnakeFrom(s, i + 1)

\* .replace(/^_/, '')
StripLeadingUnderscore(s) ==
    IF Len(s) > 0 /\ s[1] = "_" THEN Tail(s) ELSE s

noSqlToSqlFieldName(noSqlName) ==
    StripLeadingUnderscore(toLowerCase(SnakeFrom(noSqlName, 1)))

sanitizeIdentifier(name) ==
    LET replaced == [i \in 1..Len(name) |->
                        IF IsWordChar(name[i]) THEN name[i] ELSE "_"]
    IN  IF Len(replaced) > 0 /\ IsDigit(replaced[1])
        THEN <<"_">> \o replaced
        ELSE replaced

tableToCollectionName(tableName) ==
    LET camelCase == sqlToNoSqlFieldName(tableName)
    IN  IF ~endsWith(camelCase, <<"s">>) /\ ~endsWith(camelCase, <<"d","a","t","a">>)
        THEN camelCase \o <<"s">>
        ELSE camelCase

collectionToTableName(collectionName) ==
    LET t0 == noSqlToSqlFieldName(collectionName)
        t1 == IF endsWith(t0, <<"i","e","s">>) THEN sliceEnd(t0, 3) \o <<"y">>
              ELSE IF endsWith(t0, <<"s">>) /\ ~endsWith(t0, <<"s","s">>)
                   THEN sliceEnd(t0, 1)
                   ELSE t0
    IN  toUpperCase(t1)

\* noSqlToSql.ts convertFieldToColumn: the name of the generated column
ColumnNameOf(fieldName, preserveCase) ==
    sanitizeIdentifier(IF preserveCase THEN fieldName
                       ELSE noSqlToSqlFieldName(fieldName))

(***************************************************************************)
(* Values shared by the converters                                         *)
(***************************************************************************)
\* a JavaScript value that is undefined, a string or a boolean
Undefined == [kind |-> "undefined"]
Str(s) == [kind |-> "string", str |-> s]
Bool(b) == [kind |-> "boolean", bool |-> b]

\* no `ref` property on a field
NoRef == <<>>

RECURSIVE Flatten(_)
Flatten(ss) == IF ss = <<>> THEN <<>> ELSE Head(ss) \o Flatten(Tail(ss))

\* Array.prototype.includes
InSeq(seq, x) == \E i \in 1..Len(seq) : seq[i] = x

\* Array.prototype.some over the names of a sequence of records
HasName(seq, name) == \E i \in 1..Len(seq) : seq[i].name = name

(***************************************************************************)
(* intelligentSqlToNoSqlTransformer.ts                                     *)
(*                                                                         *)
(* SqlTable   [name, columns, primaryKey, foreignKeys]; primaryKey is the  *)
(*            list of a table-level PRIMARY KEY clause, <<>> when the      *)
(*            extractor left it undefined                                  *)
(* SqlColumn  [name, type, nullable, unique, autoIncrement, defaultValue]  *)
(* SqlForeignKey [columnName, referencedTable, referencedColumn]           *)
(***************************************************************************)
\* .replace(/^[A-Z]/, letter => letter.toLowerCase())
LowerFirst(s) ==
    IF Len(s) > 0 /\ IsUpper(s[1]) THEN <<CharToLower(s[1])>> \o Tail(s) ELSE s

toCamelCase(str) == LowerFirst(CamelFrom(toLowerCase(str), 1))

singularize(str) ==
    IF endsWith(str, <<"i","e","s">>) THEN sliceEnd(str, 3) \o <<"y">>
    ELSE IF endsWith(str, <<"s","e","s">>) \/ endsWith(str, <<"x","e","s">>)
            \/ endsWith(str, <<"z","e","s">>)
         THEN sliceEnd(str, 2)
    ELSE IF endsWith(str, <<"s">>) /\ ~endsWith(str, <<"s","s">>)
         THEN sliceEnd(str, 1)
    ELSE str

\* sqlTypeToMongoType: a type is [base, params]; the regular expression
\* drops the parenthesised params, the rest is looked up upper-cased
sqlTypeToMongoType(sqlType) ==
    LET baseType == sqlType.base
    IN  CASE baseType \in {"INT", "INTEGER", "SMALLINT", "TINYINT"} -> "number"
          [] baseType = "BIGINT" -> "long"
          [] baseType = "DECIMAL" -> "decimal"
          [] baseType \in {"FLOAT", "DOUBLE"} -> "double"
          [] baseType \in {"VARCHAR", "CHAR", "TEXT"} -> "string"
          [] baseType \in {"DATE", "DATETIME", "TIMESTAMP"} -> "date"
          [] baseType = "BOOLEAN" -> "bool"
          [] baseType = "BLOB" -> "binData"
          [] baseType = "JSON" -> "object"
          [] OTHER -> "string"

\* schema.tables.find(t => t.name === name) succeeds
TableExists(tables, name) == \E i \in 1..Len(tables) : tables[i].name = name

\* table.columns.find(c => c.name === name): index of the first match, 0 if none
FindColumn(table, name) ==
    IF HasName(table.columns, name)
    THEN CHOOSE i \in 1..Len(table.columns) :
            /\ table.columns[i].name = name
            /\ \A j \in 1..(i-1) : table.columns[j].name # name
    ELSE 0

\* table.foreignKeys.find(fk => fk.columnName === name): index, 0 if none
FindForeignKey(table, name) ==
    IF \E i \in 1..Len(table.foreignKeys) : table.foreignKeys[i].columnName = name
    THEN CHOOSE i \in 1..Len(table.foreignKeys) :
            /\ table.foreignKeys[i].columnName = name
            /\ \A j \in 1..(i-1) : table.foreignKeys[j].columnName # name
    ELSE 0

\* table.foreignKeys.some(fk => fk.columnName === name)
IsFkColumn(table, name) == FindForeignKey(table, name) # 0

\* RelationshipOf without the uniqueness test: every foreign key is one-to-many
RelationshipOf_NeverUnique(table, fk, smallTableThreshold) ==
    [type |-> "1:N",
     fromTable |-> table.name,
     toTable |-> fk.referencedTable,
     fromColumn |-> fk.columnName,
     toColumn |-> fk.referencedColumn,
     isUnique |-> FALSE,
     isSmall |-> Len(table.columns) <= smallTableThreshold,
     shouldEmbed |-> FALSE]

\* the relationship analyzeRelationships pushes for one foreign key
RelationshipOf(table, fk, smallTableThreshold) ==
    LET c == FindColumn(table, fk.columnName)
        isUnique == IF c = 0 THEN FALSE ELSE table.columns[c].unique
    IN  [type |-> IF isUnique THEN "1:1" ELSE "1:N",
         fromTable |-> table.name,
         toTable |-> fk.referencedTable,
         fromColumn |-> fk.columnName,
         toColumn |-> fk.referencedColumn,
         isUnique |-> isUnique,
         isSmall |-> Len(table.columns) <= smallTableThreshold,
         shouldEmbed |-> FALSE]

analyzeRelationships(tables, smallTableThreshold) ==
    LET OfTable(table) ==
            LET Present(fk) == TableExists(tables, fk.referencedTable)
                fks == SelectSeq(table.foreignKeys, Present)
            IN  [i \in 1..Len(fks) |->
                    RelationshipOf(table, fks[i], smallTableThreshold)]
    IN  Flatten([t \in 1..Len(tables) |-> OfTable(tables[t])])

\* col.name.toLowerCase().match(/created|updated|timestamp/)
IsTimestampName(name) ==
    LET n == toLowerCase(name)
    IN  includes(n, <<"c","r","e","a","t","e","d">>)
            \/ includes(n, <<"u","p","d","a","t","e","d">>)
            \/ includes(n, <<"t","i","m","e","s","t","a","m","p">>)

IsJunctionTable(table) ==
    /\ Len(table.foreignKeys) = 2
    /\ LET NonFk(col) == ~IsFkColumn(table, col.name) /\ ~IsTimestampName(col.name)
       IN  Len(SelectSeq(table.columns, NonFk)) <= 2

detectJunctionTables(tables) ==
    {tables[i].name : i \in {j \in 1..Len(tables) : IsJunctionTable(tables[j])}}

\* ShouldEmbed without the isSmall test on one-to-many relationships
ShouldEmbed_IgnoreSize(rel, embedOneToOne, embedSmallOneToMany) ==
    \/ rel.type = "1:1" /\ embedOneToOne
    \/ rel.type = "1:N" /\ embedSmallOneToMany

\* the decision of determineEmbeddingStrategy for one relationship
ShouldEmbed(rel, embedOneToOne, embedSmallOneToMany) ==
    \/ rel.type = "1:1" /\ embedOneToOne
    \/ rel.type = "1:N" /\ embedSmallOneToMany /\ rel.isSmall

\* DecidedRelationships that leaves every relationship as a reference
DecidedRelationships_NeverEmbed(rels, junctions, embedOneToOne, embedSmallOneToMany) ==
    rels

\* determineEmbeddingStrategy writes rel.shouldEmbed in place for every
\* relationship whose fromTable is not a junction table
DecidedRelationships(rels, junctions, embedOneToOne, embedSmallOneToMany) ==
    [i \in 1..Len(rels) |->
        IF rels[i].fromTable \in junctions THEN rels[i]
        ELSE [rels[i] EXCEPT !.shouldEmbed =
                ShouldEmbed(rels[i], embedOneToOne, embedSmallOneToMany)]]

\* embeddingStrategy.get(`${table}.${column}`): Map.set keeps the last
\* relationship stored under a key; 0 when the key is absent
StrategyIndex(decided, junctions, tableName, columnName) ==
    LET hits == {i \in 1..Len(decided) :
                    /\ decided[i].fromTable \notin junctions
                    /\ decided[i].fromTable = tableName
                    /\ decided[i].fromColumn = columnName}
    IN  IF hits = {} THEN 0 ELSE CHOOSE i \in hits : \A j \in hits : j <= i

\* the fields and indexes transformTableWithEmbedding emits for one column
ColumnOutput(table, tables, decided, junctions, generateIndexes, column) ==
    LET f == FindForeignKey(table, column.name)
        fk == table.foreignKeys[f]
        st == StrategyIndex(decided, junctions, table.name, column.name)
        embed == st # 0 /\ decided[st].shouldEmbed
    IN  IF column.autoIncrement /\ InSeq(table.primaryKey, column.name)
        THEN [fields |-> <<>>, indexes |-> <<>>]
        ELSE IF f # 0
        THEN IF embed
             THEN IF TableExists(tables, fk.referencedTable)
                  THEN [fields |-> <<[name |-> toCamelCase(singularize(fk.referencedTable)),
                                      type |-> IF decided[st].type = "1:N"
                                               THEN "array" ELSE "object",
                                      required |-> ~column.nullable,
                                      unique |-> FALSE,
                                      default |-> Undefined,
                                      ref |-> NoRef]>>,
                        indexes |-> <<>>]
                  ELSE [fields |-> <<>>, indexes |-> <<>>]
             ELSE [fields |-> <<[name |-> toCamelCase(column.name),
                                 type |-> "objectId",
                                 required |-> ~column.nullable,
                                 unique |-> FALSE,
                                 default |-> Undefined,
                                 ref |-> toCamelCase(fk.referencedTable)]>>,
                   indexes |-> IF generateIndexes
                               THEN <<[fields |-> <<toCamelCase(column.name)>>,
                                       unique |-> FALSE]>>
                               ELSE <<>>]
        ELSE [fields |-> <<[name |-> toCamelCase(column.name),
                            type |-> sqlTypeToMongoType(column.type),
                            required |-> ~column.nullable,
                            unique |-> column.unique,
                            default |-> column.defaultValue,
                            ref |-> NoRef]>>,
              indexes |-> IF column.unique /\ generateIndexes
                          THEN <<[fields |-> <<toCamelCase(column.name)>>,
                                  unique |-> TRUE]>>
                          ELSE <<>>]

TimestampField(name) ==
    [name |-> name, type |-> "date", required |-> TRUE, unique |-> FALSE,
     default |-> Str(<<"D","a","t","e",".","n","o","w">>), ref |-> NoRef]

IdField ==
    [name |-> <<"_","i","d">>, type |-> "objectId", required |-> TRUE, unique |-> FALSE,
     default |-> Undefined, ref |-> NoRef]

transformTableWithEmbedding(table, tables, decided, junctions, generateIndexes) ==
    LET outs == [i \in 1..Len(table.columns) |->
                    ColumnOutput(table, tables, decided, junctions,
                                 generateIndexes, table.columns[i])]
        f0 == <<IdField>> \o Flatten([i \in 1..Len(outs) |-> outs[i].fields])
        f1 == IF ~HasName(f0, <<"c","r","e","a","t","e","d","A","t">>)
              THEN Append(f0, TimestampField(<<"c","r","e","a","t","e","d","A","t">>)) ELSE f0
        f2 == IF ~HasName(f1, <<"u","p","d","a","t","e","d","A","t">>)
              THEN Append(f1, TimestampField(<<"u","p","d","a","t","e","d","A","t">>)) ELSE f1
    IN  [name |-> toCamelCase(table.name),
         fields |-> f2,
         indexes |-> Flatten([i \in 1..Len(outs) |-> outs[i].indexes]),
         linking |-> FALSE]

\* createLinkingCollection with a compound index that is not unique
createLinkingCollection_PlainIndex(junctionTable) ==
    LET fk1 == junctionTable.foreignKeys[1]
        fk2 == junctionTable.foreignKeys[2]
        RefField(fk) == [name |-> toCamelCase(fk.columnName),
                         type |-> "objectId",
                         required |-> TRUE,
                         unique |-> FALSE,
                         default |-> Undefined,
                         ref |-> toCamelCase(fk.referencedTable)]
    IN  [name |-> toCamelCase(junctionTable.name),
         fields |-> <<IdField, RefField(fk1), RefField(fk2)>>,
         indexes |-> <<[fields |-> <<toCamelCase(fk1.columnName),
                                     toCamelCase(fk2.columnName)>>,
                        unique |-> FALSE]>>,
         linking |-> TRUE]

\* createLinkingCollection, called only for tables with two foreign keys.
\* The index key object {[a]: 1, [b]: 1} holds one key when a = b.
createLinkingCollection(junctionTable) ==
    LET fk1 == junctionTable.foreignKeys[1]
        fk2 == junctionTable.foreignKeys[2]
        RefField(fk) == [name |-> toCamelCase(fk.columnName),
                         type |-> "objectId",
                         required |-> TRUE,
                         unique |-> FALSE,
                         default |-> Undefined,
                         ref |-> toCamelCase(fk.referencedTable)]
        Extra(col) == ~IsFkColumn(junctionTable, col.name) /\ ~col.autoIncrement
        extras == SelectSeq(junctionTable.columns, Extra)
        k1 == toCamelCase(fk1.columnName)
        k2 == toCamelCase(fk2.columnName)
    IN  [name |-> toCamelCase(junctionTable.name),
         fields |-> <<IdField, RefField(fk1), RefField(fk2)>> \o
                    [i \in 1..Len(extras) |->
                        [name |-> toCamelCase(extras[i].name),
                         type |-> sqlTypeToMongoType(extras[i].type),
                         required |-> ~extras[i].nullable,
                         unique |-> FALSE,
                         default |-> Undefined,
                         ref |-> NoRef]],
         indexes |-> <<[fields |-> IF k1 = k2 THEN <<k1>> ELSE <<k1, k2>>,
                        unique |-> TRUE]>>,
         linking |-> TRUE]

\* intelligentSqlToNoSql whose step 4 does not skip the junction tables
intelligentSqlToNoSql_KeepJunctions(tables, opts) ==
    LET rels == analyzeRelationships(tables, opts.smallTableThreshold)
        junctions == detectJunctionTables(tables)
        decided == DecidedRelationships(rels, junctions, opts.embedOneToOne,
                                        opts.embedSmallOneToMany)
        Kept(table) == TRUE
        kept == SelectSeq(tables, Kept)
        \* Set iteration follows insertion order, which is table order;
        \* find() takes the first table of that name, and a table without
        \* exactly two foreign keys yields null
        firsts == {i \in 1..Len(tables) :
                     /\ IsJunctionTable(tables[i])
                     /\ \A j \in 1..(i-1) :
                           ~(IsJunctionTable(tables[j]) /\ tables[j].name = tables[i].name)}
        Found(i) == tables[CHOOSE k \in 1..Len(tables) :
                             /\ tables[k].name = tables[i].name
                             /\ \A j \in 1..(k-1) : tables[j].name # tables[i].name]
        positions == SelectSeq([i \in 1..Len(tables) |-> i],
                               LAMBDA i : i \in firsts /\ Len(Found(i).foreignKeys) = 2)
        linkSources == IF opts.createLinkingCollections
                       THEN [i \in 1..Len(positions) |-> Found(positions[i])]
                       ELSE <<>>
        NotFromJunction(rel) == rel.fromTable \notin junctions
        outRels == SelectSeq(decided, NotFromJunction)
    IN  [relationships |-> decided,
         junctionTables |-> junctions,
         collections |->
            [i \in 1..Len(kept) |->
                transformTableWithEmbedding(kept[i], tables, decided, junctions,
                                            opts.generateIndexes)]
            \o [i \in 1..Len(linkSources) |-> createLinkingCollection(linkSources[i])],
         nosqlRelationships |->
            [i \in 1..Len(outRels) |->
                [from |-> <<toCamelCase(outRels[i].fromTable),
                            toCamelCase(outRels[i].fromColumn)>>,
                 to |-> toCamelCase(outRels[i].toTable),
                 type |-> outRels[i].type,
                 embedded |-> outRels[i].shouldEmbed]]]

\* intelligentSqlToNoSql, steps 1 to 6
intelligentSqlToNoSql(tables, opts) ==
    LET rels == analyzeRelationships(tables, opts.smallTableThreshold)
        junctions == detectJunctionTables(tables)
        decided == DecidedRelationships(rels, junctions, opts.embedOneToOne,
                                        opts.embedSmallOneToMany)
        Kept(table) == ~(table.name \in junctions /\ opts.createLinkingCollections)
        kept == SelectSeq(tables, Kept)
        \* Set iteration follows insertion order, which is table order;
        \* find() takes the first table of that name, and a table without
        \* exactly two foreign keys yields null
        firsts == {i \in 1..Len(tables) :
                     /\ IsJunctionTable(tables[i])
                     /\ \A j \in 1..(i-1) :
                           ~(IsJunctionTable(tables[j]) /\ tables[j].name = tables[i].name)}
        Found(i) == tables[CHOOSE k \in 1..Len(tables) :
                             /\ tables[k].name = tables[i].name
                             /\ \A j \in 1..(k-1) : tables[j].name # tables[i].name]
        positions == SelectSeq([i \in 1..Len(tables) |-> i],
                               LAMBDA i : i \in firsts /\ Len(Found(i).foreignKeys) = 2)
        linkSources == IF opts.createLinkingCollections
                       THEN [i \in 1..Len(positions) |-> Found(positions[i])]
                       ELSE <<>>
        NotFromJunction(rel) == rel.fromTable \notin junctions
        outRels == SelectSeq(decided, NotFromJunction)
    IN  [relationships |-> decided,
         junctionTables |-> junctions,
         collections |->
            [i \in 1..Len(kept) |->
                transformTableWithEmbedding(kept[i], tables, decided, junctions,
                                            opts.generateIndexes)]
            \o [i \in 1..Len(linkSources) |-> createLinkingCollection(linkSources[i])],
         nosqlRelationships |->
            [i \in 1..Len(outRels) |->
                [from |-> <<toCamelCase(outRels[i].fromTable),
                            toCamelCase(outRels[i].fromColumn)>>,
                 to |-> toCamelCase(outRels[i].toTable),
                 type |-> outRels[i].type,
                 embedded |-> outRels[i].shouldEmbed]]]

(***************************************************************************)
(* core: column types of the DDL text                                      *)
(***************************************************************************)
\* A column type as the text `${word}${params} ${tail}`: the word matched
\* by (\w+), the parenthesised parameters that may follow it directly, and
\* what follows after a blank (only 'INT IDENTITY(1,1)' has a tail)
SqlType(word, params, tail) == [word |-> word, params |-> params, tail |-> tail]

(***************************************************************************)
(* dataMapper.ts: types                                                    *)
(***************************************************************************)
\* mapSqlToNoSql, on the type word of a column
mapSqlToNoSql(sqlType) ==
    LET type == toUpperCase(sqlType)
    IN  IF includes(type, <<"I","N","T">>) \/ includes(type, <<"S","E","R","I","A","L">>) THEN "number"
        ELSE IF includes(type, <<"V","A","R","C","H","A","R">>) \/ includes(type, <<"C","H","A","R">>)
                \/ includes(type, <<"T","E","X","T">>) THEN "string"
        ELSE IF includes(type, <<"B","O","O","L">>) THEN "boolean"
        ELSE IF includes(type, <<"D","A","T","E">>) \/ includes(type, <<"T","I","M","E">>) THEN "date"
        ELSE IF includes(type, <<"D","E","C","I","M","A","L">>) \/ includes(type, <<"F","L","O","A","T">>)
                \/ includes(type, <<"D","O","U","B","L","E">>)
                        \/ includes(type, <<"N","U","M","E","R","I","C">>) THEN "number"
        ELSE IF includes(type, <<"J","S","O","N">>) \/ includes(type, <<"J","S","O","N","B">>) THEN "object"
        ELSE IF includes(type, <<"B","L","O","B">>)
                \/ includes(type, <<"B","I","N","A","R","Y">>) THEN "binary"
        ELSE "mixed"

\* the values of enum NoSqlDataType are strings at run time, so mapNoSqlToSql
\* always takes the toLowerCase() branch; 'objectId' is the one value that
\* toLowerCase() changes
TypeToLowerCase(noSqlType) ==
    IF noSqlType = "objectId" THEN "objectid" ELSE noSqlType

mapNoSqlToSql(noSqlType, dialect) ==
    LET type == TypeToLowerCase(noSqlType)
    IN  CASE type = "string" -> SqlType(<<"V","A","R","C","H","A","R">>, <<"(","2","5","5",")">>, <<>>)
          [] type = "number" ->
                IF dialect = "postgresql"
                THEN SqlType(<<"N","U","M","E","R","I","C">>, <<>>, <<>>)
                ELSE SqlType(<<"D","E","C","I","M","A","L">>, <<"(","1","0",",","2",")">>, <<>>)
          [] type = "boolean" -> SqlType(<<"B","O","O","L","E","A","N">>, <<>>, <<>>)
          [] type = "date" -> SqlType(<<"T","I","M","E","S","T","A","M","P">>, <<>>, <<>>)
          [] type \in {"object", "array"} ->
                IF dialect = "postgresql" THEN SqlType(<<"J","S","O","N","B">>, <<>>, <<>>)
                ELSE IF dialect = "mysql" THEN SqlType(<<"J","S","O","N">>, <<>>, <<>>)
                ELSE SqlType(<<"T","E","X","T">>, <<>>, <<>>)
          [] type = "objectId" -> SqlType(<<"V","A","R","C","H","A","R">>, <<"(","2","4",")">>, <<>>)
          [] type = "binary" -> SqlType(<<"B","Y","T","E","A">>, <<>>, <<>>)
          [] OTHER -> SqlType(<<"T","E","X","T">>, <<>>, <<>>)

(***************************************************************************)
(* noSqlToSql.ts                                                           *)
(*                                                                         *)
(* NoSqlField [name, type, required, unique, default, ref, nested, arrayOf]*)
(*   absent ref is NoRef, absent nested is <<>>, absent arrayOf is ""      *)
(* SqlColumn  [name, type, nullable, primaryKey, autoIncrement, unique,    *)
(*             defaultValue, references]                                   *)
(* SqlTable   [name, columns, primaryKeys, foreignKeys, uniqueConstraints, *)
(*             indexes]                                                    *)
(***************************************************************************)

getAutoIncrementType(dialect) ==
    CASE dialect = "postgresql" -> SqlType(<<"S","E","R","I","A","L">>, <<>>, <<>>)
      [] dialect \in {"mysql", "sqlite"} -> SqlType(<<"I","N","T","E","G","E","R">>, <<>>, <<>>)
      [] dialect = "mssql" -> SqlType(<<"I","N","T">>, <<>>,
              <<"I","D","E","N","T","I","T","Y","(","1",",","1",")">>)
      [] OTHER -> SqlType(<<"I","N","T","E","G","E","R">>, <<>>, <<>>)

isPrimitiveType(type) == type \in {"string", "number", "boolean", "date"}

convertFieldToColumn(field, dialect, opts) ==
    [name |-> ColumnNameOf(field.name, opts.preserveCase),
     type |-> IF field.type = "array"
              THEN (IF dialect = "postgresql" THEN SqlType(<<"J","S","O","N","B">>, <<>>, <<>>)
                      ELSE SqlType(<<"J","S","O","N">>, <<>>, <<>>))
              ELSE mapNoSqlToSql(field.type, dialect),
     nullable |-> ~field.required,
     primaryKey |-> FALSE,
     autoIncrement |-> FALSE,
     unique |-> field.unique,
     defaultValue |-> IF field.default # Undefined /\ field.default # Str(<<"D","a","t","e",".","n","o","w">>)
                      THEN field.default ELSE Undefined,
     references |-> [table |-> <<>>, column |-> <<>>]]

PlainColumn(name, type, nullable, primaryKey, autoIncrement, unique, defaultValue) ==
    [name |-> name, type |-> type, nullable |-> nullable,
     primaryKey |-> primaryKey, autoIncrement |-> autoIncrement,
     unique |-> unique, defaultValue |-> defaultValue,
     references |-> [table |-> <<>>, column |-> <<>>]]

IdColumn(dialect) ==
    PlainColumn(<<"i","d">>, getAutoIncrementType(dialect), FALSE, TRUE, TRUE, TRUE, Undefined)

\* what convertCollectionToTable pushes for one field
FieldOutput(field, dialect, opts) ==
    LET column == convertFieldToColumn(field, dialect, opts)
    IN  IF field.name = <<"_","i","d">>
        THEN [columns |-> <<IdColumn(dialect)>>, primaryKeys |-> <<<<"i","d">>>>,
              foreignKeys |-> <<>>, uniqueConstraints |-> <<>>]
        ELSE IF Len(field.nested) > 0
        THEN [columns |-> <<>>, primaryKeys |-> <<>>,
              foreignKeys |-> <<>>, uniqueConstraints |-> <<>>]
        ELSE [columns |-> <<column>>,
              primaryKeys |-> <<>>,
              foreignKeys |->
                 IF field.ref # NoRef
                 THEN <<[column |-> column.name,
                         references |->
                            [table |-> IF opts.preserveCase THEN field.ref
                                       ELSE collectionToTableName(field.ref),
                             column |-> <<"i","d">>],
                         onDelete |-> "CASCADE"]>>
                 ELSE <<>>,
              uniqueConstraints |-> IF field.unique THEN <<<<column.name>>>> ELSE <<>>]

TimestampColumn(name) ==
    PlainColumn(name, SqlType(<<"T","I","M","E","S","T","A","M","P">>, <<>>, <<>>),
            FALSE, FALSE, FALSE, FALSE, Str(<<"C","U","R","R","E","N","T","_","T","I","M","E","S","T","A","M","P">>))

convertCollectionToTable(collection, dialect, opts) ==
    LET outs == [i \in 1..Len(collection.fields) |->
                    FieldOutput(collection.fields[i], dialect, opts)]
        tableName == IF opts.preserveCase THEN collection.name
                     ELSE collectionToTableName(collection.name)
    IN  [name |-> sanitizeIdentifier(tableName),
         columns |-> Flatten([i \in 1..Len(outs) |-> outs[i].columns]) \o
                     (IF opts.includeTimestamps
                      THEN <<TimestampColumn(<<"c","r","e","a","t","e","d","_","a","t">>),
                              TimestampColumn(<<"u","p","d","a","t","e","d","_","a","t">>)>>
                      ELSE <<>>),
         primaryKeys |-> Flatten([i \in 1..Len(outs) |-> outs[i].primaryKeys]),
         foreignKeys |-> Flatten([i \in 1..Len(outs) |-> outs[i].foreignKeys]),
         uniqueConstraints |-> Flatten([i \in 1..Len(outs) |-> outs[i].uniqueConstraints]),
         indexes |-> [i \in 1..Len(collection.indexes) |->
                        [columns |-> collection.indexes[i].fields,
                         unique |-> collection.indexes[i].unique]]]

\* the child table normalizeNestedFields builds for one nested field
\* (<<>> when it builds none)
NestedTables(field, parentTable, dialect, opts) ==
    LET nestedName == parentTable.name \o <<"_">> \o field.name
        backRef == parentTable.name \o <<"_">> \o <<"i","d">>
        head == <<IdColumn(dialect),
                  PlainColumn(backRef, SqlType(<<"I","N","T","E","G","E","R">>, <<>>, <<>>),
                          FALSE, FALSE, FALSE, FALSE, Undefined)>>
        Child(columns) ==
            [name |-> sanitizeIdentifier(nestedName),
             columns |-> columns,
             primaryKeys |-> <<<<"i","d">>>>,
             foreignKeys |-> <<[column |-> backRef,
                                references |-> [table |-> parentTable.name,
                                                column |-> <<"i","d">>],
                                onDelete |-> "CASCADE"]>>,
             uniqueConstraints |-> <<>>,
             indexes |-> <<>>]
    IN  IF field.type = "object" /\ Len(field.nested) > 0
        THEN <<Child(head \o [i \in 1..Len(field.nested) |->
                                convertFieldToColumn(field.nested[i], dialect, opts)])>>
        ELSE IF field.type = "array" /\ field.arrayOf # ""
                /\ ~isPrimitiveType(field.arrayOf)
        THEN <<Child(Append(head,
                    PlainColumn(<<"v","a","l","u","e">>, mapNoSqlToSql(field.arrayOf, dialect),
                                TRUE, FALSE, FALSE, FALSE, Undefined)))>>
        ELSE <<>>

normalizeNestedFields(nestedFields, parentTable, dialect, opts) ==
    Flatten([i \in 1..Len(nestedFields) |->
                NestedTables(nestedFields[i], parentTable, dialect, opts)])

(***************************************************************************)
(* The DDL text.  A statement is [name, lines]; a line is the lexical      *)
(* content the regular expressions of the parser can see:                  *)
(*   column      `name type [flags] [DEFAULT value] [REFERENCES t(c)]`      *)
(*   primaryKey  `PRIMARY KEY (columns)`                                   *)
(*   foreignKey  `FOREIGN KEY (column) REFERENCES table(column) ON DELETE` *)
(*   unique      `UNIQUE (columns)`                                        *)
(* flags are the keywords "NOT NULL", "PRIMARY KEY", "AUTO_INCREMENT",     *)
(* "AUTOINCREMENT" and "UNIQUE" in the order written.                      *)
(***************************************************************************)
NoDefaultClause == [present |-> FALSE, quoted |-> FALSE, text |-> <<>>]
DefaultClause(quoted, text) == [present |-> TRUE, quoted |-> quoted, text |-> text]

ColumnLine(name, type, flags, default, references) ==
    [kind |-> "column", name |-> name, type |-> type, flags |-> flags,
     default |-> default, references |-> references]

\* generateColumnDDL
generateColumnDDL(column, dialect) ==
    ColumnLine(column.name, column.type,
        (IF ~column.nullable THEN <<"NOT NULL">> ELSE <<>>) \o
        (IF column.autoIncrement /\ dialect = "mysql" THEN <<"AUTO_INCREMENT">>
         ELSE IF column.autoIncrement /\ dialect = "sqlite" THEN <<"AUTOINCREMENT">>
         ELSE <<>>) \o
        (IF column.unique /\ ~column.primaryKey THEN <<"UNIQUE">> ELSE <<>>),
        CASE column.defaultValue.kind = "undefined" -> NoDefaultClause
          [] column.defaultValue.kind = "string" ->
                DefaultClause(TRUE, column.defaultValue.str)
          [] column.defaultValue.kind = "boolean" ->
                DefaultClause(FALSE, IF column.defaultValue.bool THEN <<"t","r","u","e">>
                        ELSE <<"f","a","l","s","e">>),
        [table |-> <<>>, column |-> <<>>])

generateTableDDL(table, dialect) ==
    [name |-> table.name,
     lines |->
        [i \in 1..Len(table.columns) |-> generateColumnDDL(table.columns[i], dialect)] \o
        (IF Len(table.primaryKeys) > 0
         THEN <<[kind |-> "primaryKey", columns |-> table.primaryKeys]>> ELSE <<>>) \o
        [i \in 1..Len(table.foreignKeys) |->
            [kind |-> "foreignKey",
             column |-> table.foreignKeys[i].column,
             references |-> table.foreignKeys[i].references,
             onDelete |-> table.foreignKeys[i].onDelete]] \o
        [i \in 1..Len(table.uniqueConstraints) |->
            [kind |-> "unique", columns |-> table.uniqueConstraints[i]]]]

\* generateDDL: the CREATE TABLE statements; the CREATE INDEX statements that
\* follow them are kept apart, the CREATE TABLE parser never matches them
generateDDL(tables, dialect) ==
    [tables |-> [i \in 1..Len(tables) |-> generateTableDDL(tables[i], dialect)],
     indexes |-> Flatten([i \in 1..Len(tables) |->
                    [k \in 1..Len(tables[i].indexes) |->
                        [table |-> tables[i].name,
                         columns |-> tables[i].indexes[k].columns,
                         unique |-> tables[i].indexes[k].unique]]])]

IsNestedField(field) == field.type \in {"object", "array"}

\* convertNoSqlToSql: the ConversionResult.  A collection that comes without
\* its fields list (hasFields false) makes `for (const field of
\* collection.fields)` throw a TypeError, which the catch block turns into
\* the failure result with the empty schema text.
convertNoSqlToSql(noSql, dialect, opts) ==
    LET PerCollection(collection) ==
            LET table == convertCollectionToTable(collection, dialect, opts)
                nestedFields == SelectSeq(collection.fields, IsNestedField)
            IN  [tables |-> <<table>> \o
                    (IF Len(nestedFields) > 0 /\ opts.normalizeDepth > 0
                     THEN normalizeNestedFields(nestedFields, table, dialect, opts)
                     ELSE <<>>),
                 warnings |-> IF Len(nestedFields) > 0 /\ ~(opts.normalizeDepth > 0)
                              THEN <<collection.name>> ELSE <<>>]
        outs == [i \in 1..Len(noSql) |-> PerCollection(noSql[i])]
        tables == Flatten([i \in 1..Len(outs) |-> outs[i].tables])
    IN  IF \E i \in 1..Len(noSql) : ~noSql[i].hasFields
        THEN [success |-> FALSE,
              schema |-> [tables |-> <<>>, indexes |-> <<>>],
              tables |-> <<>>,
              warnings |-> <<>>,
              errors |-> <<"collection.fields is not iterable">>]
        ELSE
        [success |-> TRUE,
         schema |-> generateDDL(tables, dialect),
         tables |-> tables,
         warnings |-> Flatten([i \in 1..Len(outs) |-> outs[i].warnings]),
         errors |-> <<>>]

(***************************************************************************)
(* sqlToNoSql.ts                                                           *)
(***************************************************************************)
\* every character of a non-empty name is in \w
IsWord(name) == Len(name) > 0 /\ \A i \in 1..Len(name) : IsWordChar(name[i])

\* the capture of /DEFAULT\s+([^,\s]+)/: the text up to the first blank or comma
RECURSIVE TakeToken(_)
TakeToken(text) ==
    IF text = <<>> \/ Head(text) \in {" ", ","} THEN <<>>
    ELSE <<Head(text)>> \o TakeToken(Tail(text))

\* .replace(/'/g, '')
StripQuotes(text) == SelectSeq(text, LAMBDA c : c # "'")

\* the text after DEFAULT as written in the statement
DefaultText(default) ==
    IF default.quoted THEN <<"'">> \o default.text \o <<"'">> ELSE default.text

\* the part of a column line that follows the type: (.*) of the column pattern
ConstraintsInclude(line, word) ==
    \/ includes(toUpperCase(line.type.tail), word)
    \/ line.default.present /\ includes(toUpperCase(DefaultText(line.default)), word)

\* parseColumnDefinition: [matched, column]
parseColumnDefinition(line) ==
    [matched |-> line.kind = "column" /\ IsWord(line.name) /\ IsWord(line.type.word),
     column |->
        IF line.kind # "column" THEN <<>>
        ELSE
        [name |-> line.name,
         type |-> toUpperCase(line.type.word),
         nullable |-> ~InSeq(line.flags, "NOT NULL"),
         primaryKey |-> InSeq(line.flags, "PRIMARY KEY"),
         autoIncrement |-> \/ InSeq(line.flags, "AUTO_INCREMENT")
                           \/ InSeq(line.flags, "AUTOINCREMENT")
                           \/ ConstraintsInclude(line, <<"S","E","R","I","A","L">>),
         unique |-> InSeq(line.flags, "UNIQUE"),
         defaultValue |-> IF line.default.present
                          THEN Str(StripQuotes(TakeToken(DefaultText(line.default))))
                          ELSE Undefined,
         references |-> line.references]]

\* /PRIMARY\s+KEY/i.test(line)
MentionsPrimaryKey(line) ==
    \/ line.kind = "primaryKey"
    \/ line.kind = "column" /\ InSeq(line.flags, "PRIMARY KEY")

\* what parseTableDefinition collects from one line of the table body
LineOutput(line) ==
    LET parsed == parseColumnDefinition(line)
        none == [columns |-> <<>>, primaryKeys |-> <<>>, foreignKeys |-> <<>>]
    IN  IF MentionsPrimaryKey(line)
        THEN \* only `PRIMARY KEY (...)` matches pkMatch; the line is consumed
             \* either way
             IF line.kind = "primaryKey"
             THEN [none EXCEPT !.primaryKeys = line.columns]
             ELSE none
        ELSE IF line.kind = "foreignKey"
        THEN IF IsWord(line.references.table)
             THEN [none EXCEPT !.foreignKeys =
                        <<[column |-> line.column, references |-> line.references]>>]
             ELSE none
        ELSE IF line.kind = "unique"
        THEN \* no CONSTRAINT keyword, and `UNIQUE (` is no column definition
             none
        ELSE IF parsed.matched
        THEN [none EXCEPT !.columns = <<parsed.column>>,
                          !.primaryKeys = IF parsed.column.primaryKey
                                          THEN <<parsed.column.name>> ELSE <<>>]
        ELSE none

parseTableDefinition(statement) ==
    LET outs == [i \in 1..Len(statement.lines) |-> LineOutput(statement.lines[i])]
    IN  [name |-> statement.name,
         columns |-> Flatten([i \in 1..Len(outs) |-> outs[i].columns]),
         primaryKeys |-> Flatten([i \in 1..Len(outs) |-> outs[i].primaryKeys]),
         foreignKeys |-> Flatten([i \in 1..Len(outs) |-> outs[i].foreignKeys])]

\* parseSqlSchema: CREATE TABLE `?(\w+)`? matches statements with a word name
parseSqlSchema(sql) ==
    LET matching == SelectSeq(sql.tables, LAMBDA st : IsWord(st.name))
    IN  [i \in 1..Len(matching) |-> parseTableDefinition(matching[i])]

\* normalizeDefaultValue; the argument is Undefined or a string
normalizeDefaultValue(defaultValue, fieldType) ==
    LET strValue == toUpperCase(defaultValue.str)
    IN  IF defaultValue = Undefined THEN Undefined
        ELSE IF strValue = <<"T","R","U","E">> THEN Bool(TRUE)
        ELSE IF strValue = <<"F","A","L","S","E">> THEN Bool(FALSE)
        ELSE IF strValue \in {<<"C","U","R","R","E","N","T","_","T","I","M","E","S","T","A","M","P">>, <<"C","U","R","R","E","N","T","_","D","A","T","E">>, <<"N","O","W","(",")">>,
                              <<"G","E","T","D","A","T","E","(",")">>, <<"S","Y","S","D","A","T","E">>}
        THEN Str(<<"D","a","t","e",".","n","o","w">>)
        ELSE IF fieldType = "date" /\ includes(strValue, <<"(",")">>) THEN Str(<<"D","a","t","e",".","n","o","w">>)
        ELSE defaultValue

convertColumnToField(column, opts) ==
    LET fieldType == mapSqlToNoSql(column.type)
        hasRef == column.references # [table |-> <<>>, column |-> <<>>]
    IN  [name |-> IF opts.preserveCase THEN column.name
                  ELSE sqlToNoSqlFieldName(column.name),
         type |-> IF hasRef THEN "objectId" ELSE fieldType,
         required |-> ~column.nullable,
         unique |-> column.unique,
         default |-> IF column.defaultValue # Undefined
                     THEN normalizeDefaultValue(column.defaultValue, fieldType)
                     ELSE Undefined,
         ref |-> IF hasRef
                 THEN (IF opts.preserveCase THEN column.references.table
                       ELSE tableToCollectionName(column.references.table))
                 ELSE NoRef,
         nested |-> <<>>,
         arrayOf |-> ""]

CoreField(name, type, required, unique, default) ==
    [name |-> name, type |-> type, required |-> required, unique |-> unique,
     default |-> default, ref |-> NoRef, nested |-> <<>>, arrayOf |-> ""]

convertTableToCollection(table, opts) ==
    LET Kept(column) ==
            ~(column.autoIncrement /\ column.primaryKey /\ opts.generateIds)
        kept == SelectSeq(table.columns, Kept)
        f0 == (IF opts.generateIds
               THEN <<CoreField(<<"_","i","d">>, "objectId", TRUE, TRUE, Undefined)>>
               ELSE <<>>) \o
              [i \in 1..Len(kept) |-> convertColumnToField(kept[i], opts)]
        f1 == IF opts.includeTimestamps /\ ~HasName(f0, <<"c","r","e","a","t","e","d","A","t">>)
              THEN <<CoreField(<<"c","r","e","a","t","e","d","A","t">>, "date", TRUE, FALSE, Str(<<"D","a","t","e",".","n","o","w">>))>>
              ELSE <<>>
        f2 == IF opts.includeTimestamps /\ ~HasName(f0, <<"u","p","d","a","t","e","d","A","t">>)
              THEN <<CoreField(<<"u","p","d","a","t","e","d","A","t">>, "date", TRUE, FALSE, Str(<<"D","a","t","e",".","n","o","w">>))>>
              ELSE <<>>
        fields == f0 \o f1 \o f2
        uniques == SelectSeq(fields, LAMBDA f : f.unique /\ f.name # <<"_","i","d">>)
    IN  [name |-> IF opts.preserveCase THEN table.name
                  ELSE tableToCollectionName(table.name),
         fields |-> fields,
         indexes |->
            [i \in 1..Len(uniques) |-> [fields |-> <<uniques[i].name>>, unique |-> TRUE]]
            \o
            [i \in 1..Len(table.foreignKeys) |->
                [fields |-> <<IF opts.preserveCase THEN table.foreignKeys[i].column
                              ELSE sqlToNoSqlFieldName(table.foreignKeys[i].column)>>,
                 unique |-> FALSE]]]

\* convertSqlToNoSql without the early return for a text without tables
convertSqlToNoSql_NoGuard(sql, opts) ==
    LET tables == parseSqlSchema(sql)
    IN  [success |-> TRUE,
         schema |-> [i \in 1..Len(tables) |->
                       convertTableToCollection(tables[i], opts)],
         tables |-> tables,
         errors |-> <<>>]

\* convertSqlToNoSql: the ConversionResult
convertSqlToNoSql(sql, opts) ==
    LET tables == parseSqlSchema(sql)
    IN  IF Len(tables) = 0
        THEN [success |-> FALSE, schema |-> <<>>, tables |-> tables,
              errors |-> <<"No tables found in SQL schema">>]
        ELSE [success |-> TRUE,
              schema |-> [i \in 1..Len(tables) |->
                            convertTableToCollection(tables[i], opts)],
              tables |-> tables,
              errors |-> <<>>]

(***************************************************************************)
(* Specification SpecSan: two field names go through the column namer      *)
(***************************************************************************)
MaxNameLen == 2

NamesUpTo(n) == UNION {[1..k -> {"a", "B", "_", "-", "1"}] : k \in 1..n}

\* the state of every part of the engine that the running specification
\* does not exercise
Idle(active) ==
    /\ IF active = "san" THEN TRUE
       ELSE sanIn = <<>> /\ sanOpts = <<>> /\ sanOut = <<>>
    /\ IF active = "intel" THEN TRUE
       ELSE /\ schema = <<>> /\ options = <<>> /\ relationships = <<>>
            /\ junctionTables = {} /\ collections = <<>> /\ nosqlRelationships = <<>>
    /\ IF active = "core" THEN TRUE
       ELSE /\ noSqlSchema = <<>> /\ sqlSchema = <<>> /\ conversionOptions = <<>>
            /\ sqlResult = <<>> /\ noSqlResult = <<>> /\ jsonData = <<>>
    /\ IF active = "validate" THEN TRUE
       ELSE stdSchema = <<>> /\ validation = <<>>
    /\ IF active = "route" THEN TRUE
       ELSE /\ request = <<>> /\ apiReply = <<>> /\ standardizedSchema = <<>>
            /\ phase2Calls = 0 /\ response = <<>>
    /\ IF active = "infer" THEN TRUE
       ELSE samples = <<>> /\ inferredSchema = <<>> /\ inferredCollection = <<>>
    /\ IF active = "types" THEN TRUE
       ELSE nativeType = <<>> /\ mappedType = <<>>
    /\ IF active = "analyze" THEN TRUE
       ELSE analyzedSchema = <<>> /\ cycles = <<>>

InitSan ==
    /\ pc = "san_start"
    /\ Idle("san")
    /\ sanIn \in NamesUpTo(MaxNameLen) \X NamesUpTo(MaxNameLen)
    /\ sanOpts \in [preserveCase : BOOLEAN]
    /\ sanOut = <<>>

SanitizeNames ==
    /\ pc = "san_start"
    /\ sanOut' = <<ColumnNameOf(sanIn[1], sanOpts.preserveCase),
                   ColumnNameOf(sanIn[2], sanOpts.preserveCase)>>
    /\ pc' = "san_done"
    /\ UNCHANGED <<sanIn, sanOpts, intelVars, coreVars, backendVars>>

NextSan == SanitizeNames

SpecSan == InitSan /\ [][NextSan]_vars

\* C4: any two distinct input names yield distinct generated identifiers
\* (sanitization never makes identifiers collide).
C4_NoCollision ==
    (pc = "san_done" /\ sanIn[1] # sanIn[2]) => sanOut[1] # sanOut[2]

(***************************************************************************)
(* Specification SpecIntel: one call of intelligentSqlToNoSql on a schema  *)
(* of the fixed table `users` and one table `posts` drawn from the pool    *)
(***************************************************************************)
LowThreshold == 2
DefaultSmallTableThreshold == 5

Column(name, type, nullable, unique, autoIncrement, defaultValue) ==
    [name |-> name, type |-> type, nullable |-> nullable, unique |-> unique,
     autoIncrement |-> autoIncrement, defaultValue |-> defaultValue]

UsersTable ==
    [name |-> <<"u","s","e","r","s">>,
     columns |-> <<Column(<<"i","d">>, [base |-> "INT", params |-> ""], FALSE, FALSE, TRUE, Undefined),
                   Column(<<"e","m","a","i","l">>, [base |-> "VARCHAR", params |-> "(255)"], FALSE, TRUE, FALSE, Undefined)>>,
     primaryKey |-> <<<<"i","d">>>>,
     foreignKeys |-> <<>>]

\* the columns the drawn table may have, in declaration order
ColumnPool ==
    <<<<"i","d">>, <<"u","s","e","r","_","i","d">>, <<"o","w","n","e","r","_","i","d">>,
      <<"c","r","e","a","t","e","d","_","a","t">>, <<"t","i","t","l","e">>, <<"b","o","d","y">>>>

\* how the id column is declared: [autoIncrement, primaryKey]
IdDeclarations(present) ==
    IF <<"i","d">> \in present
    THEN {[autoIncrement |-> TRUE, primaryKey |-> <<<<"i","d">>>>],
          [autoIncrement |-> TRUE, primaryKey |-> <<>>],
          [autoIncrement |-> FALSE, primaryKey |-> <<<<"i","d">>>>]}
    ELSE {[autoIncrement |-> FALSE, primaryKey |-> <<>>]}

PooledColumn(name, uniques, autoInc) ==
    CASE name = <<"i","d">> -> Column(name, [base |-> "INT", params |-> ""], FALSE, FALSE, autoInc, Undefined)
      [] name \in {<<"u","s","e","r","_","i","d">>, <<"o","w","n","e","r","_","i","d">>} ->
            Column(name, [base |-> "INT", params |-> ""], TRUE, name \in uniques, FALSE, Undefined)
      [] name = <<"c","r","e","a","t","e","d","_","a","t">> ->
            Column(name, [base |-> "TIMESTAMP", params |-> ""], TRUE, FALSE, FALSE, Str(<<"C","U","R","R","E","N","T","_","T","I","M","E","S","T","A","M","P">>))
      [] OTHER -> Column(name, [base |-> "VARCHAR", params |-> "(255)"], TRUE, FALSE, FALSE, Undefined)

DrawnTable(present, uniques, idDecl, fks) ==
    LET names == SelectSeq(ColumnPool, LAMBDA n : n \in present)
    IN  [name |-> <<"p","o","s","t","s">>,
         columns |-> [i \in 1..Len(names) |->
                        PooledColumn(names[i], uniques, idDecl.autoIncrement)],
         primaryKey |-> idDecl.primaryKey,
         foreignKeys |-> fks]

\* user_id may reference users or the absent table courses, owner_id users
ForeignKeyPool(present) ==
    {fk \in [columnName : present \cap {<<"u","s","e","r","_","i","d">>, <<"o","w","n","e","r","_","i","d">>},
             referencedTable : {<<"u","s","e","r","s">>, <<"c","o","u","r","s","e","s">>},
             referencedColumn : {<<"i","d">>}] :
        fk.referencedTable = <<"c","o","u","r","s","e","s">> => fk.columnName = <<"u","s","e","r","_","i","d">>}

\* the foreign-key lists drawn: every order, one foreign key per column
ForeignKeysOver(present) ==
    {fks \in UNION {[1..k -> ForeignKeyPool(present)] :
                        k \in 0..Cardinality({<<"u","s","e","r","_","i","d">>, <<"o","w","n","e","r","_","i","d">>})} :
        \A i, j \in 1..Len(fks) : i # j => fks[i].columnName # fks[j].columnName}

InitIntel ==
    /\ pc = "intel_start"
    /\ Idle("intel")
    /\ \E present \in {present \in SUBSET {ColumnPool[i] : i \in 1..Len(ColumnPool)} :
                /\ present # {}
                /\ <<"b","o","d","y">> \in present => <<"t","i","t","l","e">> \in present} :
       \E uniques \in SUBSET (present \cap {<<"u","s","e","r","_","i","d">>, <<"o","w","n","e","r","_","i","d">>}) :
       \E idDecl \in IdDeclarations(present) :
       \E fks \in ForeignKeysOver(present) :
          schema = <<UsersTable, DrawnTable(present, uniques, idDecl, fks)>>
    /\ options \in [embedOneToOne : BOOLEAN,
             embedSmallOneToMany : BOOLEAN,
             smallTableThreshold : {LowThreshold, DefaultSmallTableThreshold},
             createLinkingCollections : BOOLEAN,
             generateIndexes : BOOLEAN]
    /\ relationships = <<>>
    /\ junctionTables = {}
    /\ collections = <<>>
    /\ nosqlRelationships = <<>>

IntelligentSqlToNoSql ==
    /\ pc = "intel_start"
    /\ LET r == intelligentSqlToNoSql(schema, options)
       IN  /\ relationships' = r.relationships
           /\ junctionTables' = r.junctionTables
           /\ collections' = r.collections
           /\ nosqlRelationships' = r.nosqlRelationships
    /\ pc' = "intel_done"
    /\ UNCHANGED <<schema, options, sanVars, coreVars, backendVars>>

NextIntel == IntelligentSqlToNoSql

SpecIntel == InitIntel /\ [][NextIntel]_vars

(***************************************************************************)
(* Schema inference from sample records: inferSchemaFromJson (core,        *)
(* jsonConverter.ts) and inferSchemaFromData / analyzeDocument (backend    *)
(* extractor).  A record is the sequence of its entries in key order; a    *)
(* value is its kind and, for an object, its own entries.                  *)
(***************************************************************************)
\* first occurrences of the elements of a sequence, in order
RECURSIVE Distinct(_)
Distinct(seq) ==
    IF seq = <<>> THEN <<>>
    ELSE LET front == Distinct(SubSeq(seq, 1, Len(seq) - 1))
             last == seq[Len(seq)]
         IN  IF InSeq(front, last) THEN front ELSE Append(front, last)

HasKey(record, key) == \E i \in 1..Len(record) : record[i].key = key

ValueOf(record, key) == record[CHOOSE i \in 1..Len(record) : record[i].key = key]

\* getJsonType and getValueType agree on the kinds drawn here
getJsonType(value) == value.kind

inferObjectProperties(value) ==
    [i \in 1..Len(value.entries) |->
        [key |-> value.entries[i].key, type |-> getJsonType(value.entries[i])]]

inferSchemaFromJson(data) ==
    LET allKeys == Distinct(Flatten([d \in 1..Len(data) |->
                        [i \in 1..Len(data[d]) |-> data[d][i].key]]))
        keyTypes(key) ==
            {getJsonType(ValueOf(data[d], key)) :
                d \in {x \in 1..Len(data) : HasKey(data[x], key)}}
        keyRequired(key) == Cardinality({d \in 1..Len(data) : HasKey(data[d], key)})
        typeOf(key) ==
            IF Cardinality(keyTypes(key)) = 1 THEN CHOOSE t \in keyTypes(key) : TRUE
            ELSE "string"
        holders(key) ==
            {d \in 1..Len(data) : HasKey(data[d], key) /\ ValueOf(data[d], key).kind # "null"}
        nested(key) ==
            IF typeOf(key) = "object" /\ holders(key) # {}
            THEN inferObjectProperties(
                     ValueOf(data[CHOOSE d \in holders(key) :
                                     \A e \in holders(key) : d <= e], key))
            ELSE <<>>
    IN  [properties |-> [i \in 1..Len(allKeys) |->
                           [key |-> allKeys[i], type |-> typeOf(allKeys[i]),
                            properties |-> nested(allKeys[i])]],
         required |-> SelectSeq(allKeys, LAMBDA key : keyRequired(key) = Len(data))]

(***************************************************************************)
(* jsonConverter.ts: convertJsonToSql.  The jsonData argument is           *)
(* [isArray, items]: the items of the array, or the one value that is not  *)
(* an array; an item is [isNull, entries], null or an object.              *)
(***************************************************************************)
jsonSchemaToTable(jsonSchema, tableName, dialect, opts) ==
    LET jsonTypeToSqlType(jsonType) ==
            CASE jsonType = "string" ->
                    SqlType(<<"V","A","R","C","H","A","R">>, <<"(","2","5","5",")">>, <<>>)
              [] jsonType = "number" ->
                    IF dialect = "postgresql"
                    THEN SqlType(<<"N","U","M","E","R","I","C">>, <<>>, <<>>)
                    ELSE SqlType(<<"D","E","C","I","M","A","L">>, <<"(","1","0",",","2",")">>, <<>>)
              [] jsonType = "integer" -> SqlType(<<"I","N","T","E","G","E","R">>, <<>>, <<>>)
              [] jsonType = "boolean" -> SqlType(<<"B","O","O","L","E","A","N">>, <<>>, <<>>)
              [] jsonType \in {"object", "array"} ->
                    IF dialect = "postgresql" THEN SqlType(<<"J","S","O","N","B">>, <<>>, <<>>)
                    ELSE SqlType(<<"J","S","O","N">>, <<>>, <<>>)
              [] OTHER -> SqlType(<<"T","E","X","T">>, <<>>, <<>>)
        properties == jsonSchema.properties
    IN  [name |-> sanitizeIdentifier(tableName),
         columns |->
            <<PlainColumn(<<"i","d">>,
                  IF dialect = "postgresql" THEN SqlType(<<"S","E","R","I","A","L">>, <<>>, <<>>)
                  ELSE SqlType(<<"I","N","T","E","G","E","R">>, <<>>, <<>>),
                  FALSE, TRUE, TRUE, TRUE, Undefined)>> \o
            [i \in 1..Len(properties) |->
                PlainColumn(sanitizeIdentifier(properties[i].key),
                    jsonTypeToSqlType(properties[i].type),
                    ~InSeq(jsonSchema.required, properties[i].key),
                    FALSE, FALSE, FALSE, Undefined)] \o
            (IF opts.includeTimestamps
             THEN <<TimestampColumn(<<"c","r","e","a","t","e","d","_","a","t">>)>>
             ELSE <<>>),
         primaryKeys |-> <<<<"i","d">>>>,
         foreignKeys |-> <<>>,
         uniqueConstraints |-> <<>>,
         indexes |-> <<>>]

\* convertJsonToSql: the ConversionResult, its schema text kept as the
\* CREATE TABLE statement (schema) and the INSERT statements (inserts, the
\* column list of each).  inferSchemaFromJson skips a null item, but its
\* data.find(item => item[key] ...) and the item[col.name] of
\* generateInsertStatements read a property of every item they visit: with
\* a null item they throw a TypeError as soon as there is a key or a column
\* other than id, and the catch block returns the failure result.  The
\* generateTableDDL of jsonConverter.ts writes the lines that the one of
\* noSqlToSql.ts writes for a table without foreign keys.
convertJsonToSql(data, tableName, dialect, opts) ==
    LET dataArray == data.items
        records == [i \in 1..Len(dataArray) |-> dataArray[i].entries]
        inferred == inferSchemaFromJson(records)
        table == jsonSchemaToTable(inferred, tableName, dialect, opts)
        throws == /\ \E i \in 1..Len(dataArray) : dataArray[i].isNull
                  /\ Len(inferred.properties) > 0 \/ opts.includeTimestamps
        Failure(message) ==
            [success |-> FALSE, schema |-> [tables |-> <<>>, indexes |-> <<>>],
             inserts |-> <<>>, tables |-> <<>>, warnings |-> <<>>,
             errors |-> <<message>>]
        written == SelectSeq(table.columns, LAMBDA col : ~col.autoIncrement)
        InsertColumns(record) ==
            SelectSeq([k \in 1..Len(written) |-> written[k].name],
                      LAMBDA name : HasKey(record, name))
        inserts == SelectSeq([i \in 1..Len(records) |-> InsertColumns(records[i])],
                             LAMBDA columns : Len(columns) > 0)
    IN  IF Len(dataArray) = 0 THEN Failure("No data provided")
        ELSE IF throws THEN Failure("Cannot read properties of null")
        ELSE [success |-> TRUE,
              schema |-> [tables |-> <<generateTableDDL(table, dialect)>>,
                          indexes |-> <<>>],
              inserts |-> inserts,
              tables |-> <<table>>,
              warnings |-> <<>>,
              errors |-> <<>>]

(***************************************************************************)
(* Specification SpecCore: the core converters.  A run starts either from  *)
(* a document schema, which convertNoSqlToSql turns into DDL that is then  *)
(* re-extracted by convertSqlToNoSql (the round trip), or from DDL written *)
(* by hand, which convertSqlToNoSql extracts.                              *)
(***************************************************************************)

\* the longest jsonData array drawn
MaxItems == 2

\* the fields a drawn collection may have, in order
FieldPool ==
    <<CoreField(<<"_","i","d">>, "objectId", TRUE, TRUE, Undefined),
      CoreField(<<"n","a","m","e">>, "string", TRUE, TRUE, Undefined),
      [CoreField(<<"u","s","e","r","I","d">>, "objectId", FALSE, FALSE, Undefined) EXCEPT !.ref = <<"u","s","e","r","s">>],
      CoreField(<<"c","r","e","a","t","e","d","A","t">>, "date", TRUE, FALSE, Str(<<"D","a","t","e",".","n","o","w">>)),
      CoreField(<<"i","s","A","c","t","i","v","e">>, "boolean", FALSE, FALSE, Bool(TRUE)),
      [CoreField(<<"p","r","o","f","i","l","e">>, "object", FALSE, FALSE, Undefined) EXCEPT
          !.nested = <<CoreField(<<"b","i","o">>, "string", FALSE, FALSE, Undefined)>>],
      [CoreField(<<"t","a","g","s">>, "array", FALSE, FALSE, Undefined) EXCEPT !.arrayOf = "string"]>>

DrawnCollection(name, picked) ==
    LET positions == SelectSeq([i \in 1..Len(FieldPool) |-> i], LAMBDA i : i \in picked)
    IN  [name |-> name,
         hasFields |-> TRUE,
         fields |-> [i \in 1..Len(positions) |-> FieldPool[positions[i]]],
         indexes |-> <<>>]

\* the other column lines a hand-written statement may have, in order
LinePool ==
    <<ColumnLine(<<"e","m","a","i","l">>, SqlType(<<"V","A","R","C","H","A","R">>,
            <<"(","2","5","5",")">>, <<>>), <<"NOT NULL", "UNIQUE">>,
                 NoDefaultClause, [table |-> <<>>, column |-> <<>>]),
      ColumnLine(<<"i","s","_","a","c","t","i","v","e">>, SqlType(<<"B","O","O","L","E","A","N">>,
              <<>>, <<>>), <<>>, DefaultClause(FALSE, <<"T","R","U","E">>),
                 [table |-> <<>>, column |-> <<>>]),
      ColumnLine(<<"c","r","e","a","t","e","d","_","a","t">>, SqlType(<<"T","I","M","E","S","T","A","M","P">>, <<>>, <<>>), <<>>,
                 DefaultClause(FALSE, <<"C","U","R","R","E","N","T","_","T","I","M","E","S","T","A","M","P">>), [table |-> <<>>, column |-> <<>>]),
      ColumnLine(<<"s","t","a","r","t","_","t","i","m","e">>, SqlType(<<"T","I","M","E">>, <<>>,
              <<>>), <<"NOT NULL">>, NoDefaultClause, [table |-> <<>>, column |-> <<>>]),
      ColumnLine(<<"o","w","n","e","r","_","i","d">>, SqlType(<<"I","N","T">>, <<>>, <<>>), <<>>, NoDefaultClause,
                 [table |-> <<"u","s","e","r","s">>, column |-> <<"i","d">>]),
      ColumnLine(<<"_","i","d">>, SqlType(<<"I","N","T">>, <<>>, <<>>), <<>>, NoDefaultClause, [table |-> <<>>, column |-> <<>>])>>

DrawnStatement(idLines, picked) ==
    LET positions == SelectSeq([i \in 1..Len(LinePool) |-> i], LAMBDA i : i \in picked)
        columnLines == SelectSeq(idLines, LAMBDA l : l.kind = "column")
        otherLines == SelectSeq(idLines, LAMBDA l : l.kind # "column")
    IN  [tables |-> <<[name |-> <<"u","s","e","r","s">>,
                       lines |-> columnLines \o
                                 [i \in 1..Len(positions) |-> LinePool[positions[i]]] \o
                                 otherLines]>>,
         indexes |-> <<>>]

InitCore ==
    /\ Idle("core")
    /\ conversionOptions \in [dialect : {"mysql", "postgresql", "sqlite", "mssql"},
             preserveCase : BOOLEAN,
             includeTimestamps : BOOLEAN,
             generateIds : BOOLEAN,
             normalizeDepth : {0, 1}]
    /\ sqlResult = <<>>
    /\ noSqlResult = <<>>
    /\ \/ /\ pc = "core_nosql"
          /\ \/ \E name \in {<<"u","s","e","r","s">>, <<"c","a","t","e","g","o","r","i","e","s">>} :
                \E picked \in (SUBSET (1..Len(FieldPool))) \ {{}} :
                   noSqlSchema = <<DrawnCollection(name, picked)>>
             \/ noSqlSchema = <<[DrawnCollection(<<"u","s","e","r","s">>, {})
                                    EXCEPT !.hasFields = FALSE]>>
          /\ sqlSchema = <<>>
          /\ jsonData = <<>>
       \/ /\ pc = "core_json"
          /\ noSqlSchema = <<>>
          /\ sqlSchema = <<>>
          /\ ~conversionOptions.preserveCase
          /\ conversionOptions.generateIds
          /\ conversionOptions.normalizeDepth = 1
          /\ LET Entry(key, kind) == [key |-> key, kind |-> kind, entries |-> <<>>]
                 Object(entries) == [isNull |-> FALSE, entries |-> entries]
                 items == {[isNull |-> TRUE, entries |-> <<>>],
                           Object(<<>>),
                           Object(<<Entry(<<"a">>, "number")>>),
                           Object(<<Entry(<<"i","d">>, "number"), Entry(<<"a">>, "string")>>),
                           Object(<<Entry(<<"c","r","e","a","t","e","d","_","a","t">>, "string")>>)}
             IN  \/ \E n \in 0..MaxItems : \E list \in [1..n -> items] :
                       jsonData = [isArray |-> TRUE, items |-> list]
                 \/ \E item \in items :
                       jsonData = [isArray |-> FALSE, items |-> <<item>>]
       \/ /\ pc = "core_sql"
          /\ noSqlSchema = <<>>
          /\ jsonData = <<>>
          /\ conversionOptions.dialect = "mysql"
          /\ conversionOptions.normalizeDepth = 1
          /\ \E idLines \in {<<>>,
             <<ColumnLine(<<"i","d">>, SqlType(<<"I","N","T">>, <<>>, <<>>), <<"PRIMARY KEY", "AUTO_INCREMENT">>,
                          NoDefaultClause, [table |-> <<>>, column |-> <<>>])>>,
             <<ColumnLine(<<"i","d">>, SqlType(<<"I","N","T">>, <<>>, <<>>), <<"NOT NULL", "AUTO_INCREMENT">>,
                          NoDefaultClause, [table |-> <<>>, column |-> <<>>]),
               [kind |-> "primaryKey", columns |-> <<<<"i","d">>>>]>>,
             <<ColumnLine(<<"i","d">>, SqlType(<<"I","N","T">>, <<>>, <<>>), <<"NOT NULL">>, NoDefaultClause, [table |-> <<>>, column |-> <<>>]),
               [kind |-> "primaryKey", columns |-> <<<<"i","d">>>>]>>} :
             \E picked \in SUBSET (1..Len(LinePool)) :
                /\ idLines # <<>> \/ picked # {}
                /\ sqlSchema = DrawnStatement(idLines, picked)

\* convertNoSqlToSql; the DDL string of the result is what the caller hands
\* to the extraction
ConvertNoSqlToSql ==
    /\ pc = "core_nosql"
    /\ LET r == convertNoSqlToSql(noSqlSchema, conversionOptions.dialect,
                                  conversionOptions)
       IN  /\ sqlResult' = r
           /\ sqlSchema' = r.schema
    /\ pc' = "core_sql"
    /\ UNCHANGED <<noSqlSchema, conversionOptions, noSqlResult, jsonData, sanVars,
                   intelVars, backendVars>>

ConvertSqlToNoSql ==
    /\ pc = "core_sql"
    /\ noSqlResult' = convertSqlToNoSql(sqlSchema, conversionOptions)
    /\ pc' = "core_done"
    /\ UNCHANGED <<noSqlSchema, sqlSchema, conversionOptions, sqlResult, jsonData,
                   sanVars, intelVars, backendVars>>

\* convertJsonToSql with the default table name
ConvertJsonToSql ==
    /\ pc = "core_json"
    /\ sqlResult' = convertJsonToSql(jsonData, <<"d","a","t","a">>,
                                     conversionOptions.dialect, conversionOptions)
    /\ pc' = "core_json_done"
    /\ UNCHANGED <<noSqlSchema, sqlSchema, conversionOptions, noSqlResult, jsonData,
                   sanVars, intelVars, backendVars>>

NextCore == ConvertNoSqlToSql \/ ConvertSqlToNoSql \/ ConvertJsonToSql

SpecCore == InitCore /\ [][NextCore]_vars

(***************************************************************************)
(* Properties of the core converters (SpecCore)                            *)
(***************************************************************************)
\* the run started from a document schema and went through both converters

\* the run started from hand-written DDL and it has been extracted

\* the DDL of the run was generated from the document schema

FieldNames(collection) ==
    {collection.fields[i].name : i \in 1..Len(collection.fields)}

UniqueFieldNames(collection) ==
    {collection.fields[i].name :
        i \in {j \in 1..Len(collection.fields) : collection.fields[j].unique}}

ReferenceFieldNames(collection) ==
    {collection.fields[i].name :
        i \in {j \in 1..Len(collection.fields) : collection.fields[j].ref # NoRef}}

IndexedFieldNames(collection) ==
    UNION {{collection.indexes[i].fields[k] : k \in 1..Len(collection.indexes[i].fields)} :
              i \in 1..Len(collection.indexes)}

ScalarFieldsOnly(collection) ==
    \A i \in 1..Len(collection.fields) :
        collection.fields[i].type \notin {"object", "array"}

\* C5: generating DDL from a document schema and re-extracting it gives the
\* same collections, the same fields in each of them and the same keys (the
\* identifier, the unique fields, the referencing fields); types are not
\* compared.  Stated for schemas of scalar fields converted with identifier
\* generation on and without the added timestamp columns, where no option
\* adds or moves a field.
C5_RoundTripReproducesSchema ==
    (/\ (pc = "core_done" /\ noSqlSchema # <<>>)
     /\ sqlResult.success
     /\ conversionOptions.generateIds
     /\ ~conversionOptions.includeTimestamps
     /\ \A i \in 1..Len(noSqlSchema) : ScalarFieldsOnly(noSqlSchema[i]))
    => /\ noSqlResult.success
       /\ Len(noSqlResult.schema) = Len(noSqlSchema)
       /\ \A i \in 1..Len(noSqlSchema) :
            \E j \in 1..Len(noSqlResult.schema) :
               /\ noSqlResult.schema[j].name = noSqlSchema[i].name
               /\ FieldNames(noSqlResult.schema[j]) = FieldNames(noSqlSchema[i])
               /\ UniqueFieldNames(noSqlResult.schema[j]) =
                     UniqueFieldNames(noSqlSchema[i])
               /\ ReferenceFieldNames(noSqlSchema[i]) \subseteq
                     (ReferenceFieldNames(noSqlResult.schema[j]) \cup
                      IndexedFieldNames(noSqlResult.schema[j]))

ColumnLines(statement) == SelectSeq(statement.lines, LAMBDA l : l.kind = "column")

PrimaryKeyLines(statement) == SelectSeq(statement.lines, LAMBDA l : l.kind = "primaryKey")

DeclaredAutoIncrement(line) ==
    InSeq(line.flags, "AUTO_INCREMENT") \/ InSeq(line.flags, "AUTOINCREMENT")

\* the column line is the statement's primary key, declared on the column
\* itself or by a table-level PRIMARY KEY (column) line
DeclaredSinglePrimaryKey(statement, line) ==
    \/ InSeq(line.flags, "PRIMARY KEY") /\ PrimaryKeyLines(statement) = <<>>
    \/ /\ ~InSeq(line.flags, "PRIMARY KEY")
       /\ Len(PrimaryKeyLines(statement)) = 1
       /\ PrimaryKeyLines(statement)[1].columns = <<line.name>>

FieldNameOf(columnName) ==
    IF conversionOptions.preserveCase THEN columnName
    ELSE sqlToNoSqlFieldName(columnName)

CountNamed(fields, name) ==
    Cardinality({i \in 1..Len(fields) : fields[i].name = name})

\* C8: a statement whose primary key is one auto-increment column, declared
\* inline or by a table-level constraint, is extracted (identifiers being
\* generated, no column being itself called _id) to a collection that has
\* exactly one _id field and no field for the key column.
C8_SingleIdentifierField ==
    ((pc = "core_done" /\ noSqlSchema = <<>>) /\ conversionOptions.generateIds)
    => \A t \in 1..Len(sqlSchema.tables) :
         \A k \in 1..Len(ColumnLines(sqlSchema.tables[t])) :
            LET statement == sqlSchema.tables[t]
                line == ColumnLines(statement)[k]
            IN  (/\ DeclaredAutoIncrement(line)
                 /\ DeclaredSinglePrimaryKey(statement, line)
                 /\ ~HasName(ColumnLines(statement), <<"_","i","d">>))
                => /\ noSqlResult.success
                   /\ CountNamed(noSqlResult.schema[t].fields, <<"_","i","d">>) = 1
                   /\ ~HasName(noSqlResult.schema[t].fields, FieldNameOf(line.name))

IsCurrentTimestampDefault(clause) ==
    clause.present /\ toUpperCase(clause.text) = <<"C","U","R","R","E","N","T","_","T","I","M","E","S","T","A","M","P">>

\* extraction: a column read from the statement with DEFAULT CURRENT_TIMESTAMP
\* gives a field whose default is the sentinel 'Date.now'
SentinelOnExtraction ==
    (pc = "core_done" /\ noSqlSchema = <<>>)
    => \A t \in 1..Len(sqlSchema.tables) :
         \A k \in 1..Len(ColumnLines(sqlSchema.tables[t])) :
            LET line == ColumnLines(sqlSchema.tables[t])[k]
            IN  (IsCurrentTimestampDefault(line.default) /\ ~MentionsPrimaryKey(line))
                => \E i \in 1..Len(noSqlResult.schema[t].fields) :
                      /\ noSqlResult.schema[t].fields[i].name = FieldNameOf(line.name)
                      /\ noSqlResult.schema[t].fields[i].default = Str(<<"D","a","t","e",".","n","o","w">>)

\* generation: a field whose default is the sentinel gives a column line
\* with a DEFAULT clause, and the clause is not the sentinel's own text
DefaultOnGeneration ==
    (pc \in {"core_sql", "core_done"} /\ noSqlSchema # <<>>)
    => \A c \in 1..Len(noSqlSchema) :
         \A i \in 1..Len(noSqlSchema[c].fields) :
            LET field == noSqlSchema[c].fields[i]
                columnName == sanitizeIdentifier(
                                  ColumnNameOf(field.name, conversionOptions.preserveCase))
            IN  field.default = Str(<<"D","a","t","e",".","n","o","w">>)
                => \E t \in 1..Len(sqlSchema.tables) :
                   \E k \in 1..Len(ColumnLines(sqlSchema.tables[t])) :
                      LET line == ColumnLines(sqlSchema.tables[t])[k]
                      IN  /\ line.name = columnName
                          /\ line.default.present
                          /\ line.default.text # <<"D","a","t","e",".","n","o","w">>

\* C9: a current-timestamp default becomes the sentinel on extraction, and a
\* field carrying the sentinel is generated as a column with a DEFAULT clause
\* spelling the current timestamp.
C9_SentinelAndRenderedDefault == SentinelOnExtraction /\ DefaultOnGeneration

\* C11: a column whose declared type is TIME is extracted by convertSqlToNoSql
\* to a field of type string.
C11_TimeColumnBecomesString ==
    (pc = "core_done" /\ noSqlSchema = <<>>)
    => \A t \in 1..Len(sqlSchema.tables) :
         \A k \in 1..Len(ColumnLines(sqlSchema.tables[t])) :
            LET line == ColumnLines(sqlSchema.tables[t])[k]
            IN  (toUpperCase(line.type.word) = <<"T","I","M","E">> /\ ~MentionsPrimaryKey(line))
                => \E i \in 1..Len(noSqlResult.schema[t].fields) :
                      /\ noSqlResult.schema[t].fields[i].name = FieldNameOf(line.name)
                      /\ noSqlResult.schema[t].fields[i].type = "string"

(***************************************************************************)
(* Properties of intelligentSqlToNoSql (SpecIntel)                         *)
(***************************************************************************)

\* the foreign keys of the schema as <<table index, foreign key index>>
ForeignKeyPositions ==
    UNION {{<<t, f>> : f \in 1..Len(schema[t].foreignKeys)} : t \in 1..Len(schema)}

\* the local column of a foreign key has unique = true
LocalColumnUnique(table, fk) ==
    \E c \in 1..Len(table.columns) :
        table.columns[c].name = fk.columnName /\ table.columns[c].unique

\* the relationship records that analyzeRelationships kept for a foreign key
RecordsFor(table, fk) ==
    {r \in 1..Len(relationships) :
        /\ relationships[r].fromTable = table.name
        /\ relationships[r].fromColumn = fk.columnName
        /\ relationships[r].toTable = fk.referencedTable
        /\ relationships[r].toColumn = fk.referencedColumn}

\* C1: every foreign key that references a table of the schema is recorded
\* as a relationship, typed '1:1' exactly when its local column is unique and
\* '1:N' in every other case.
C1_CardinalityByUniqueness ==
    (pc = "intel_done") =>
        /\ \A p \in ForeignKeyPositions :
            LET table == schema[p[1]]
                fk == table.foreignKeys[p[2]]
            IN  TableExists(schema, fk.referencedTable) =>
                    /\ RecordsFor(table, fk) # {}
                    /\ \A r \in RecordsFor(table, fk) :
                        relationships[r].type =
                            IF LocalColumnUnique(table, fk) THEN "1:1" ELSE "1:N"
        /\ Len(relationships) =
              Cardinality({p \in ForeignKeyPositions :
                  TableExists(schema,
                      schema[p[1]].foreignKeys[p[2]].referencedTable)})

\* a run that recorded both a one-to-one and a one-to-many relationship
C1_Witness ==
    /\ (pc = "intel_done")
    /\ \E r1, r2 \in 1..Len(relationships) :
        /\ relationships[r1].type = "1:1" /\ relationships[r1].isUnique
        /\ relationships[r2].type = "1:N" /\ ~relationships[r2].isUnique

\* exactly two foreign keys and at most two columns that are neither
\* foreign-key columns nor timestamp-named
QualifiesAsJunction(table) ==
    /\ Len(table.foreignKeys) = 2
    /\ Cardinality({c \in 1..Len(table.columns) :
            /\ \A f \in 1..2 : table.foreignKeys[f].columnName # table.columns[c].name
            /\ ~IsTimestampName(table.columns[c].name)}) <= 2

\* the many-to-many records of the returned relationship list that name a table
ManyToManyRecordsFor(table) ==
    {r \in 1..Len(nosqlRelationships) :
        /\ nosqlRelationships[r].type = "N:M"
        /\ "junctionTable" \in DOMAIN nosqlRelationships[r]
        /\ nosqlRelationships[r].junctionTable = table.name}

\* C2: a table with exactly two foreign keys and at most two other
\* non-timestamp columns is classified as a junction table, and the returned
\* relationship list holds exactly one many-to-many relationship whose
\* junctionTable names it.
C2_JunctionYieldsManyToMany ==
    (pc = "intel_done") =>
        \A t \in 1..Len(schema) :
            QualifiesAsJunction(schema[t]) =>
                /\ schema[t].name \in junctionTables
                /\ Cardinality(ManyToManyRecordsFor(schema[t])) = 1

\* C3: no generated collection contains two fields with the same name.
C3_NoDuplicateFields ==
    (pc = "intel_done") =>
        \A c \in 1..Len(collections) :
            \A i, j \in 1..Len(collections[c].fields) :
                i # j => collections[c].fields[i].name # collections[c].fields[j].name

\* the collections generated under the name of a table
CollectionsOf(table) ==
    {c \in 1..Len(collections) : collections[c].name = toCamelCase(table.name)}

\* a collection carries a reference field for a foreign key
HasReferenceField(coll, columnName, referencedTable) ==
    \E i \in 1..Len(coll.fields) :
        /\ coll.fields[i].name = toCamelCase(columnName)
        /\ coll.fields[i].type = "objectId"
        /\ coll.fields[i].ref = toCamelCase(referencedTable)

\* a standalone linking collection: both foreign keys as reference fields and
\* a unique index over exactly that pair of fields
IsLinkingCollectionOf(coll, table) ==
    LET fk1 == table.foreignKeys[1]
        fk2 == table.foreignKeys[2]
    IN  /\ coll.linking
        /\ HasReferenceField(coll, fk1.columnName, fk1.referencedTable)
        /\ HasReferenceField(coll, fk2.columnName, fk2.referencedTable)
        /\ \E x \in 1..Len(coll.indexes) :
            /\ coll.indexes[x].unique
            /\ {coll.indexes[x].fields[k] : k \in 1..Len(coll.indexes[x].fields)} =
                  {toCamelCase(fk1.columnName), toCamelCase(fk2.columnName)}

\* no foreign key of a junction table is planned as embedded
JunctionNeverEmbedded(table) ==
    /\ \A r \in 1..Len(relationships) :
        relationships[r].fromTable = table.name => ~relationships[r].shouldEmbed
    /\ \A c \in CollectionsOf(table) :
        \A i \in 1..Len(collections[c].fields) :
            collections[c].fields[i].type \notin {"object", "array"}

JunctionIsLinked(table) ==
    /\ Cardinality(CollectionsOf(table)) = 1
    /\ \A c \in CollectionsOf(table) : IsLinkingCollectionOf(collections[c], table)

LargeOneToMany(table, fk) ==
    /\ TableExists(schema, fk.referencedTable)
    /\ ~LocalColumnUnique(table, fk)
    /\ Len(table.columns) > options.smallTableThreshold
    /\ ~QualifiesAsJunction(table)

HasIndexOn(coll, columnName) ==
    \E x \in 1..Len(coll.indexes) :
        coll.indexes[x].fields = <<toCamelCase(columnName)>>

\* the column of the foreign key is not an auto-increment primary-key column
\* and carries no other foreign key
PlainForeignKeyColumn(table, fk) ==
    /\ \A c \in 1..Len(table.columns) :
        table.columns[c].name = fk.columnName =>
            ~(table.columns[c].autoIncrement /\ InSeq(table.primaryKey, fk.columnName))
    /\ Cardinality({f \in 1..Len(table.foreignKeys) :
            table.foreignKeys[f].columnName = fk.columnName}) = 1

C10_CurrentTimestampBecomesSentinel ==
    (pc = "intel_done") =>
        \A t \in 1..Len(schema) :
            \A c \in 1..Len(schema[t].columns) :
                LET column == schema[t].columns[c]
                IN  column.defaultValue = Str(<<"C","U","R","R","E","N","T","_","T","I","M","E","S","T","A","M","P">>) =>
                        \A k \in CollectionsOf(schema[t]) :
                            \A i \in 1..Len(collections[k].fields) :
                                collections[k].fields[i].name = toCamelCase(column.name)
                                    => collections[k].fields[i].default = Str(<<"D","a","t","e",".","n","o","w">>)

(***************************************************************************)
(* schema_parser/validator.ts.  Names and types of the standardized schema *)
(* are plain strings here (the validator only tests them for emptiness and *)
(* equality); "" stands for an empty or missing string property, and the   *)
(* flags hasMetadata, hasTables, hasRelationships say whether the property *)
(* is there at all (tables and relationships are arrays when they are).    *)
(* The typeof tests on nullable and unique always pass on the typed inputs *)
(* drawn here.  An error is <<collection, index, message>>.                *)
(***************************************************************************)
validateColumn(column, tableIndex, colIndex) ==
    (IF column.name = ""
     THEN <<<<"tables.columns", <<tableIndex, colIndex>>, "Missing or invalid 'name' field">>>>
     ELSE <<>>)
    \o
    (IF column.type = ""
     THEN <<<<"tables.columns", <<tableIndex, colIndex>>, "Missing or invalid 'type' field">>>>
     ELSE <<>>)

validateTable(table, index) ==
    (IF table.name = ""
     THEN <<<<"tables", index, "Missing or invalid 'name' field">>>>
     ELSE <<>>)
    \o
    Flatten([c \in 1..Len(table.columns) |-> validateColumn(table.columns[c], index, c)])

\* validateRelationship without the existence test on the to endpoint
validateRelationship_FromOnly(rel, index, tables) ==
    (IF rel.id = "" THEN <<<<"relationships", index, "Missing 'id' field">>>> ELSE <<>>)
    \o
    (IF rel.type \notin {"one_to_one", "one_to_many", "many_to_many"}
     THEN <<<<"relationships", index, "Invalid 'type' field">>>>
     ELSE <<>>)
    \o
    (IF rel.from.table = ""
     THEN <<<<"relationships", index, "Missing 'from.table' field">>>>
     ELSE IF ~(\E t \in 1..Len(tables) : tables[t].name = rel.from.table)
          THEN <<<<"relationships", index, "Referenced table does not exist">>>>
          ELSE <<>>)
    \o
    (IF rel.to.table = ""
     THEN <<<<"relationships", index, "Missing 'to.table' field">>>>
     ELSE <<>>)

validateRelationship(rel, index, tables) ==
    (IF rel.id = "" THEN <<<<"relationships", index, "Missing 'id' field">>>> ELSE <<>>)
    \o
    (IF rel.type \notin {"one_to_one", "one_to_many", "many_to_many"}
     THEN <<<<"relationships", index, "Invalid 'type' field">>>>
     ELSE <<>>)
    \o
    (IF rel.from.table = ""
     THEN <<<<"relationships", index, "Missing 'from.table' field">>>>
     ELSE IF ~(\E t \in 1..Len(tables) : tables[t].name = rel.from.table)
          THEN <<<<"relationships", index, "Referenced table does not exist">>>>
          ELSE <<>>)
    \o
    (IF rel.to.table = ""
     THEN <<<<"relationships", index, "Missing 'to.table' field">>>>
     ELSE IF ~(\E t \in 1..Len(tables) : tables[t].name = rel.to.table)
          THEN <<<<"relationships", index, "Referenced table does not exist">>>>
          ELSE <<>>)

validateStandardizedSchema(s) ==
    LET versionErrors ==
            IF s.version = "" THEN <<<<"schema", 0, "Missing required field: version">>>>
            ELSE <<>>
        metadataErrors ==
            IF ~s.hasMetadata
            THEN <<<<"schema", 0, "Missing required field: metadata">>>>
            ELSE (IF s.metadata.sourceType = ""
                  THEN <<<<"schema", 0, "Missing required field: metadata.sourceType">>>>
                  ELSE <<>>)
                 \o
                 (IF s.metadata.extractedAt = ""
                  THEN <<<<"schema", 0, "Missing required field: metadata.extractedAt">>>>
                  ELSE <<>>)
        tableErrors ==
            IF ~s.hasTables
            THEN <<<<"schema", 0, "Missing or invalid field: tables (must be array)">>>>
            ELSE Flatten([i \in 1..Len(s.tables) |-> validateTable(s.tables[i], i)])
        tablesOrEmpty == IF s.hasTables THEN s.tables ELSE <<>>
        relationshipErrors ==
            IF ~s.hasRelationships THEN <<>>
            ELSE Flatten([i \in 1..Len(s.relationships) |->
                            validateRelationship(s.relationships[i], i, tablesOrEmpty)])
        errors == versionErrors \o metadataErrors \o tableErrors \o relationshipErrors
    IN  [valid |-> errors = <<>>,
         errors |-> errors,
         warnings |-> IF ~s.hasRelationships
                      THEN <<"Missing or invalid field: relationships (should be array)">>
                      ELSE <<>>]

(***************************************************************************)
(* validateStandardizedSchema under SpecBackend: the schemas drawn         *)
(***************************************************************************)
MaxJunctionFks == 3

\* a table; only the table called user_roles carries foreign keys
StdTable(name, firstType, fkCount) ==
    [name |-> name,
     type |-> "table",
     columns |-> <<[name |-> "id", type |-> firstType, nullable |-> FALSE,
                   unique |-> FALSE]>>,
     foreignKeys |-> IF name = "user_roles"
                     THEN [i \in 1..fkCount |->
                            [columns |-> <<<<"user_id", "role_id", "team_id">>[i]>>,
                             referencedTable |-> "users",
                             referencedColumns |-> <<"id">>]]
                     ELSE <<>>,
     indexes |-> <<>>,
     constraints |-> <<>>]

ValidateStandardizedSchema ==
    /\ pc = "validate_start"
    /\ validation' = validateStandardizedSchema(stdSchema)
    /\ pc' = "validate_done"
    /\ UNCHANGED <<stdSchema, request, apiReply, standardizedSchema,
                   phase2Calls, response, samples, inferredSchema,
                   inferredCollection, nativeType, mappedType, analyzedSchema,
                   cycles, sanVars, intelVars, coreVars>>

(***************************************************************************)
(* Properties of validateStandardizedSchema                                *)
(***************************************************************************)
\* C12: a schema in which a table name is empty, or in which two tables have
\* the same name, is reported invalid.
C12_EmptyOrDuplicateTableNameInvalid ==
    LET tables == IF stdSchema.hasTables THEN stdSchema.tables ELSE <<>>
    IN  (/\ pc = "validate_done"
         /\ \/ \E i \in 1..Len(tables) : tables[i].name = ""
            \/ \E i, j \in 1..Len(tables) : i # j /\ tables[i].name = tables[j].name)
        => ~validation.valid

\* C13: a schema declaring a many_to_many relationship whose junction table
\* does not have exactly two foreign keys is reported invalid.
C13_JunctionWithoutTwoForeignKeysInvalid ==
    LET tables == IF stdSchema.hasTables THEN stdSchema.tables ELSE <<>>
        JunctionHasTwoForeignKeys(rel) ==
            \E i \in 1..Len(tables) :
                /\ tables[i].name = rel.metadata.junctionTable
                /\ Len(tables[i].foreignKeys) = 2
    IN  pc = "validate_done"
        => \A r \in 1..Len(stdSchema.relationships) :
              (/\ stdSchema.relationships[r].type = "many_to_many"
               /\ ~JunctionHasTwoForeignKeys(stdSchema.relationships[r]))
              => ~validation.valid

\* the endpoint of a relationship names a table that is not in the table list
EndpointAbsent(end) ==
    LET tables == IF stdSchema.hasTables THEN stdSchema.tables ELSE <<>>
    IN  ~\E i \in 1..Len(tables) : tables[i].name = end.table

\* C14: a schema in which the from or the to endpoint of a relationship
\* names a table that is not in the table list is reported invalid.
C14_AbsentEndpointInvalid ==
    pc = "validate_done"
    => \A r \in 1..Len(stdSchema.relationships) :
          (EndpointAbsent(stdSchema.relationships[r].from)
             \/ EndpointAbsent(stdSchema.relationships[r].to))
          => ~validation.valid

\* an otherwise faultless schema is rejected for the absent to endpoint alone
C14_Witness ==
    /\ pc = "validate_done"
    /\ Len(stdSchema.relationships) = 1
    /\ ~EndpointAbsent(stdSchema.relationships[1].from)
    /\ EndpointAbsent(stdSchema.relationships[1].to)
    /\ ~validation.valid
    /\ validation.errors = <<<<"relationships", 1, "Referenced table does not exist">>>>

(***************************************************************************)
(* schema_parser/parseToJson.ts and the two-phase convert route.  The call *)
(* of the extraction service settles in one of five ways: the request      *)
(* times out, a failure status comes back, the reply holds no JSON object, *)
(* the JSON object does not parse, or it parses to a schema.               *)
(***************************************************************************)
\* callClaudeForExtraction: throws, or returns the parsed schema with its
\* metadata overwritten (sourceType, extractedAt, extractedBy)
callClaudeForExtraction(reply, sourceType) ==
    IF reply.kind = "schema"
    THEN [threw |-> FALSE,
          message |-> "",
          schema |-> [reply.schema EXCEPT
                         !.hasMetadata = TRUE,
                         !.metadata = [sourceType |-> sourceType, extractedAt |-> "now"]]]
    ELSE [threw |-> TRUE,
          message |-> "AI extraction failed",
          schema |-> reply.schema]

\* parseToJson without step 3, the validation of the extracted schema
parseToJson_Unvalidated(reply, sourceType, validateOutput) ==
    LET extracted == callClaudeForExtraction(reply, sourceType)
    IN  IF extracted.threw
        THEN [extracted EXCEPT !.message = "Schema parsing failed"]
        ELSE IF ~extracted.schema.hasTables \/ ~extracted.schema.hasRelationships
        THEN [extracted EXCEPT !.threw = TRUE, !.message = "Schema parsing failed"]
        ELSE extracted

\* parseToJson: every throw inside the try block is rethrown as 'Schema
\* parsing failed'; reading tables.length or relationships.length for the
\* log line throws when the property is missing
parseToJson(reply, sourceType, validateOutput) ==
    LET extracted == callClaudeForExtraction(reply, sourceType)
    IN  IF extracted.threw
        THEN [extracted EXCEPT !.message = "Schema parsing failed"]
        ELSE IF validateOutput /\ ~validateStandardizedSchema(extracted.schema).valid
        THEN [extracted EXCEPT !.threw = TRUE, !.message = "Schema parsing failed"]
        ELSE IF ~extracted.schema.hasTables \/ ~extracted.schema.hasRelationships
        THEN [extracted EXCEPT !.threw = TRUE, !.message = "Schema parsing failed"]
        ELSE extracted

mapTargetType(targetType, dialect) ==
    IF targetType \in {"nosql", "mongodb"} THEN "mongodb"
    ELSE IF targetType = "sql"
    THEN (IF dialect = "mysql" THEN "mysql"
          ELSE IF dialect = "sqlite" THEN "sqlite"
          ELSE "postgresql")
    ELSE IF targetType \in {"mysql", "postgresql", "sqlite", "mongodb"} THEN targetType
    ELSE "postgresql"

\* convertFromJson routes to jsonToMySQL, jsonToPostgreSQL, jsonToSQLite or
\* jsonToMongoDB; the generated text is kept as the format it is written in
\* and the number of tables it covers
convertFromJson(standardized, targetFormat) ==
    [format |-> targetFormat, tables |-> Len(standardized.tables)]

(***************************************************************************)
(* The two-phase convert route under SpecBackend.  The handler runs up to  *)
(* its await of parseToJson, and resumes when the call of the extraction   *)
(* service has settled.                                                    *)
(***************************************************************************)
\* how the call of the extraction service may settle; the schemas it may
\* send back are faultless, or lack relationships, the version, tables or a
\* table name, or name an absent table in a relationship
ReplyPool ==
    LET ReplySchema(version, hasTables, names, hasRelationships, rels) ==
            [version |-> version,
             hasMetadata |-> FALSE,
             metadata |-> [sourceType |-> "", extractedAt |-> ""],
             hasTables |-> hasTables,
             tables |-> [i \in 1..Len(names) |-> StdTable(names[i], "integer", 2)],
             hasRelationships |-> hasRelationships,
             relationships |-> rels]
        Rel(fromTable, toTable) ==
            [id |-> "r1",
             type |-> "one_to_many",
             from |-> [table |-> fromTable, columns |-> <<"id">>],
             to |-> [table |-> toTable, columns |-> <<"id">>],
             metadata |-> [junctionTable |-> ""]]
        ReplySchemas ==
            {ReplySchema("1.0", TRUE, <<"users">>, TRUE, <<>>),
             ReplySchema("1.0", TRUE, <<"users", "user_roles">>, TRUE,
                         <<Rel("user_roles", "users")>>),
             ReplySchema("1.0", TRUE, <<"users">>, FALSE, <<>>),
             ReplySchema("", TRUE, <<"users">>, TRUE, <<>>),
             ReplySchema("1.0", FALSE, <<>>, TRUE, <<>>),
             ReplySchema("1.0", TRUE, <<"">>, TRUE, <<>>),
             ReplySchema("1.0", TRUE, <<"users">>, TRUE, <<Rel("users", "roles")>>)}
    IN  {[kind |-> k, schema |-> ReplySchema("", FALSE, <<>>, FALSE, <<>>)] :
            k \in {"timeout", "failure_response", "no_json", "bad_json"}}
        \cup {[kind |-> "schema", schema |-> x] : x \in ReplySchemas}

ErrorResponse(status, message) ==
    [status |-> status, success |-> FALSE, errors |-> <<message>>,
     hasResult |-> FALSE, schema |-> [format |-> "", tables |-> 0], standardizedJson |-> <<>>]

\* the handler up to `await parseToJson(...)`
ReceiveRequest ==
    /\ pc = "convert_start"
    /\ IF request.input = "" \/ request.sourceType = "" \/ request.targetType = ""
       THEN /\ response' = ErrorResponse(400,
                               "Missing required fields: input, sourceType, targetType")
            /\ pc' = "convert_responded"
       ELSE /\ response' = response
            /\ pc' = "convert_awaiting"
    /\ UNCHANGED <<stdSchema, validation, request, apiReply,
                   standardizedSchema, phase2Calls, samples, inferredSchema,
                   inferredCollection, nativeType, mappedType, analyzedSchema,
                   cycles, sanVars, intelVars, coreVars>>

\* the extraction call settles and the handler runs to its end: the catch
\* block when parseToJson threw, phase 2 and the response otherwise
ResumeAfterParse ==
    /\ pc = "convert_awaiting"
    /\ \E reply \in ReplyPool :
          LET parsed == parseToJson(reply, request.sourceType, TRUE)
              targetFormat == mapTargetType(request.targetType, request.dialect)
          IN  /\ apiReply' = reply
              /\ IF parsed.threw
                 THEN /\ response' = ErrorResponse(500, parsed.message)
                      /\ UNCHANGED <<standardizedSchema, phase2Calls>>
                 ELSE /\ standardizedSchema' = <<parsed.schema>>
                      /\ phase2Calls' = phase2Calls + 1
                      /\ response' =
                           [status |-> 200, success |-> TRUE, errors |-> <<>>,
                            hasResult |-> TRUE,
                            schema |-> convertFromJson(parsed.schema, targetFormat),
                            standardizedJson |-> <<parsed.schema>>]
    /\ pc' = "convert_responded"
    /\ UNCHANGED <<stdSchema, validation, request, samples, inferredSchema,
                   inferredCollection, nativeType, mappedType, analyzedSchema,
                   cycles, sanVars, intelVars, coreVars>>

(***************************************************************************)
(* Properties of the two-phase convert route                               *)
(***************************************************************************)
\* the extraction step of the request failed: the call timed out, failed,
\* gave an unparsable reply, or gave a schema that does not validate
ExtractionFailed ==
    /\ pc = "convert_responded"
    /\ apiReply # <<>>
    /\ \/ apiReply.kind \in {"timeout", "failure_response", "no_json", "bad_json"}
       \/ ~validateStandardizedSchema(
              callClaudeForExtraction(apiReply, request.sourceType).schema).valid

\* C15: when the extraction step fails the request fails as a whole:
\* convertFromJson is never called and the response carries neither a
\* canonical schema nor generated output.
C15_FailedExtractionFailsRequest ==
    ExtractionFailed
    => /\ phase2Calls = 0
       /\ standardizedSchema = <<>>
       /\ ~response.success
       /\ ~response.hasResult
       /\ response.standardizedJson = <<>>
       /\ response.schema = [format |-> "", tables |-> 0]

\* a reply that parses but does not validate ends the request with a 500
C15_Witness ==
    /\ ExtractionFailed
    /\ apiReply.kind = "schema"
    /\ response.status = 500
    /\ phase2Calls = 0

(***************************************************************************)
(* The direct convert route (routes/convert.ts before the two-phase        *)
(* rewrite).  The input of a request is absent (""), a string of DDL, a    *)
(* string of JSON, or an object; the reply records which converter of the  *)
(* core package the request was handed to.  Whether that converter reports *)
(* success is left open.                                                   *)
(***************************************************************************)
\* the replies the handler may give to the request
legacyConvert(req) ==
    LET LegacyReply(status, success, converter, errors) ==
            [status |-> status, success |-> success, converter |-> converter,
             errors |-> errors]
        Rejected(message) == LegacyReply(400, FALSE, "none", <<message>>)
        IsStringInput(input) == input \in {"ddl_text", "json_text"}
        \* JSON.parse(request.input) throws
        JsonParseThrows(input) == input = "ddl_text"
        Dispatched(converter) ==
            {LegacyReply(200, ok, converter, <<>>) : ok \in BOOLEAN}
        ParsedThen(converter, message) ==
            IF IsStringInput(req.input) /\ JsonParseThrows(req.input)
            THEN {Rejected(message)}
            ELSE Dispatched(converter)
    IN  IF req.input = "" \/ req.sourceType = "" \/ req.targetType = ""
        THEN {Rejected("Missing required fields: input, sourceType, targetType")}
        ELSE IF req.sourceType = "sql" /\ req.targetType = "nosql"
        THEN (IF ~IsStringInput(req.input) THEN {Rejected("SQL input must be a string")}
              ELSE Dispatched("convertSqlToNoSql"))
        ELSE IF req.sourceType = "nosql" /\ req.targetType = "sql"
        THEN ParsedThen("convertNoSqlToSql", "Invalid NoSQL JSON input")
        ELSE IF req.sourceType = "json" /\ req.targetType = "sql"
        THEN ParsedThen("convertJsonToSql", "Invalid JSON input")
        ELSE IF req.sourceType = "json" /\ req.targetType = "nosql"
        THEN ParsedThen("convertJsonToNoSql", "Invalid JSON input")
        ELSE IF req.sourceType = "sql" /\ req.targetType = "json"
        THEN (IF ~IsStringInput(req.input) THEN {Rejected("SQL input must be a string")}
              ELSE Dispatched("convertSqlToJson"))
        ELSE IF req.sourceType = "nosql" /\ req.targetType = "json"
        THEN (IF IsStringInput(req.input) /\ JsonParseThrows(req.input)
              THEN {Rejected("Invalid NoSQL JSON input")}
              ELSE {LegacyReply(200, TRUE, "pass-through", <<>>)})
        ELSE {Rejected("Invalid source/target type combination")}

(***************************************************************************)
(* The direct convert route under SpecBackend                              *)
(***************************************************************************)
LegacyConvert ==
    /\ pc = "legacy_start"
    /\ response' \in legacyConvert(request)
    /\ pc' = "legacy_responded"
    /\ UNCHANGED <<stdSchema, validation, request, apiReply,
                   standardizedSchema, phase2Calls, samples, inferredSchema,
                   inferredCollection, nativeType, mappedType, analyzedSchema,
                   cycles, sanVars, intelVars, coreVars>>

\* C16: a request whose source and target are each one of SQL, NoSQL and
\* JSON, the same-kind pairs included, is not rejected as an invalid
\* source/target combination.
C16_EveryPairDispatched ==
    (/\ pc = "legacy_responded"
     /\ request.input # ""
     /\ request.sourceType \in {"sql", "nosql", "json"}
     /\ request.targetType \in {"sql", "nosql", "json"})
    => response.errors # <<"Invalid source/target type combination">>

(***************************************************************************)
(* Schema inference of the backend extractor: inferSchemaFromData and      *)
(* analyzeDocument, over the records of jsonConverter.ts.                  *)
(***************************************************************************)
\* analyzeDocument: what one document adds to fieldMap, in visiting order;
\* a field is named by its path
RECURSIVE analyzeDocument(_, _)
analyzeDocument(doc, prefix) ==
    IF doc = <<>> THEN <<>>
    ELSE LET entry == Head(doc)
             fieldName == Append(prefix, entry.key)
         IN  <<[name |-> fieldName, type |-> entry.kind, isNull |-> entry.kind = "null"]>>
             \o (IF entry.kind = "object" THEN analyzeDocument(entry.entries, fieldName)
                 ELSE <<>>)
             \o analyzeDocument(Tail(doc), prefix)

inferSchemaFromData(data, collectionName) ==
    LET seen == Flatten([d \in 1..Len(data) |-> analyzeDocument(data[d], <<>>)])
        names == Distinct([i \in 1..Len(seen) |-> seen[i].name])
        types(name) == {seen[i].type : i \in {j \in 1..Len(seen) : seen[j].name = name}}
        nullable(name) == \E i \in 1..Len(seen) : seen[i].name = name /\ seen[i].isNull
    IN  [name |-> collectionName,
         fields |-> [i \in 1..Len(names) |->
                       [name |-> names[i],
                        type |-> IF Cardinality(types(names[i])) = 1
                                 THEN CHOOSE t \in types(names[i]) : TRUE
                                 ELSE "string",
                        required |-> ~nullable(names[i])]]]

(***************************************************************************)
(* Schema inference under SpecBackend                                      *)
(***************************************************************************)
MaxSamples == 3

\* the most tables of an analysed schema
MaxTables == 3

\* the sample records drawn: a is absent, null, a number or a string; b is
\* absent, a number, an empty object or an object with the number q
RecordPool ==
    LET Entry(key, kind, entries) == [key |-> key, kind |-> kind, entries |-> entries]
        EntriesA ==
            {<<>>, <<Entry("a", "null", <<>>)>>, <<Entry("a", "number", <<>>)>>,
             <<Entry("a", "string", <<>>)>>}
        EntriesB ==
            {<<>>, <<Entry("b", "number", <<>>)>>, <<Entry("b", "object", <<>>)>>,
             <<Entry("b", "object", <<Entry("q", "number", <<>>)>>)>>}
    IN  {a \o b : a \in EntriesA, b \in EntriesB}

InferSchemaFromJson ==
    /\ pc = "infer_start"
    /\ inferredSchema' = inferSchemaFromJson(samples)
    /\ pc' = "infer_json_done"
    /\ UNCHANGED <<stdSchema, validation, request, apiReply,
                   standardizedSchema, phase2Calls, response, samples,
                   inferredCollection, nativeType, mappedType, analyzedSchema,
                   cycles, sanVars, intelVars, coreVars>>

InferSchemaFromData ==
    /\ pc = "infer_json_done"
    /\ inferredCollection' = inferSchemaFromData(samples, "collection")
    /\ pc' = "infer_done"
    /\ UNCHANGED <<stdSchema, validation, request, apiReply,
                   standardizedSchema, phase2Calls, response, samples,
                   inferredSchema, nativeType, mappedType, analyzedSchema,
                   cycles, sanVars, intelVars, coreVars>>

\* the record has the field of that path
RECURSIVE PresentIn(_, _)
PresentIn(record, path) ==
    /\ HasKey(record, Head(path))
    /\ Len(path) = 1 \/ PresentIn(ValueOf(record, Head(path)).entries, Tail(path))

\* C17: inference marks a field required only if the field is present in
\* every sample; this is asked of both inference functions.
C17_RequiredOnlyIfInEverySample ==
    LET PresentInEverySample(path) ==
            \A d \in 1..Len(samples) : PresentIn(samples[d], path)
    IN  /\ pc \in {"infer_json_done", "infer_done"}
           => \A i \in 1..Len(inferredSchema.required) :
                 PresentInEverySample(<<inferredSchema.required[i]>>)
        /\ pc = "infer_done"
           => \A i \in 1..Len(inferredCollection.fields) :
                 inferredCollection.fields[i].required
                 => PresentInEverySample(inferredCollection.fields[i].name)

(***************************************************************************)
(* Native-to-document type mapping of the backend: typeMapper.ts.  The     *)
(* type is the text as written, e.g. 'varchar(255)'.                       *)
(***************************************************************************)
\* the table sqlToMongoTypeMap: the value of a key in a 1-sequence, the empty
\* sequence for undefined
sqlToMongoTypeMap(key) ==
    CASE key \in {<<"I","N","T">>, <<"I","N","T","E","G","E","R">>,
                    <<"S","M","A","L","L","I","N","T">>, <<"T","I","N","Y","I","N","T">>,
                    <<"Y","E","A","R">>} -> <<"number">>
      [] key \in {<<"B","I","G","I","N","T">>} -> <<"long">>
      [] key \in {<<"D","E","C","I","M","A","L">>, <<"N","U","M","E","R","I","C">>} -> <<"decimal">>
      [] key \in {<<"F","L","O","A","T">>, <<"D","O","U","B","L","E">>,
                    <<"R","E","A","L">>} -> <<"double">>
      [] key \in {<<"V","A","R","C","H","A","R">>, <<"C","H","A","R">>,
                    <<"T","E","X","T">>, <<"T","I","N","Y","T","E","X","T">>,
                    <<"M","E","D","I","U","M","T","E","X","T">>,
                    <<"L","O","N","G","T","E","X","T">>, <<"T","I","M","E">>,
                    <<"U","U","I","D">>, <<"E","N","U","M">>} -> <<"string">>
      [] key \in {<<"D","A","T","E">>, <<"D","A","T","E","T","I","M","E">>} -> <<"date">>
      [] key \in {<<"T","I","M","E","S","T","A","M","P">>} -> <<"timestamp">>
      [] key \in {<<"B","L","O","B">>, <<"B","I","N","A","R","Y">>,
                    <<"V","A","R","B","I","N","A","R","Y">>} -> <<"binData">>
      [] key \in {<<"B","O","O","L","E","A","N">>, <<"B","O","O","L">>} -> <<"bool">>
      [] key \in {<<"J","S","O","N">>, <<"J","S","O","N","B">>} -> <<"object">>
      [] OTHER -> <<>>

\* .replace(/\([^)]*\)/g, ''): from a '(' that has a ')' after it, up to the
\* first such ')'
RECURSIVE RemoveParenthesised(_)
RemoveParenthesised(s) ==
    LET opens == {i \in 1..Len(s) : s[i] = "(" /\ \E j \in (i+1)..Len(s) : s[j] = ")"}
    IN  IF opens = {} THEN s
        ELSE LET i == CHOOSE x \in opens : \A y \in opens : x <= y
                 j == CHOOSE x \in (i+1)..Len(s) :
                         s[x] = ")" /\ \A y \in (i+1)..(x-1) : s[y] # ")"
             IN  SubSeq(s, 1, i - 1) \o RemoveParenthesised(SubSeq(s, j + 1, Len(s)))

\* String.prototype.trim, for blanks
RECURSIVE trim(_)
trim(s) ==
    IF s # <<>> /\ Head(s) = " " THEN trim(Tail(s))
    ELSE IF s # <<>> /\ s[Len(s)] = " " THEN trim(SubSeq(s, 1, Len(s) - 1))
    ELSE s

normalizeSqlType(type) ==
    LET baseType == toUpperCase(trim(RemoveParenthesised(type)))
    IN  IF includes(baseType, <<"I","N","T">>) THEN <<"I","N","T","E","G","E","R">>
        ELSE IF includes(baseType, <<"C","H","A","R">>) THEN <<"V","A","R","C","H","A","R">>
        ELSE IF includes(baseType, <<"T","E","X","T">>) THEN <<"T","E","X","T">>
        ELSE baseType

sqlToMongoType(sqlType) ==
    LET normalized == normalizeSqlType(sqlType)
    IN  IF sqlToMongoTypeMap(normalized) # <<>> THEN sqlToMongoTypeMap(normalized)[1]
        ELSE "string"

(***************************************************************************)
(* The type mappings under SpecBackend: mapSqlToNoSql of the core and      *)
(* sqlToMongoType of the backend                                           *)
(***************************************************************************)
\* the native type names drawn: a type word in upper or lower case, alone or
\* followed by a parenthesised size
NativeTypePool ==
    LET TypeWordPool ==
            {<<"I","N","T">>, <<"B","I","G","I","N","T">>,
             <<"S","E","R","I","A","L">>, <<"V","A","R","C","H","A","R">>,
             <<"C","H","A","R">>, <<"T","E","X","T">>,
             <<"B","O","O","L","E","A","N">>, <<"D","A","T","E">>,
             <<"T","I","M","E">>, <<"T","I","M","E","S","T","A","M","P">>,
             <<"D","E","C","I","M","A","L">>, <<"F","L","O","A","T">>,
             <<"J","S","O","N">>, <<"B","L","O","B">>, <<"U","U","I","D">>,
             <<"E","N","U","M">>, <<"Y","E","A","R">>, <<"R","E","A","L">>,
             <<"G","E","O","M","E","T","R","Y">>, <<"M","O","N","E","Y">>,
             <<"X","M","L">>, <<"B","I","T">>}
        TypeSuffixPool == {<<>>, <<"(","1","0",")">>, <<"(","1","0",",","2",")"," ">>}
    IN  {word \o suffix :
            word \in TypeWordPool \cup {toLowerCase(w) : w \in TypeWordPool},
            suffix \in TypeSuffixPool}

MapSqlToNoSql ==
    /\ pc = "types_start"
    /\ mappedType' = [mappedType EXCEPT !.core = mapSqlToNoSql(nativeType)]
    /\ pc' = "types_core_done"
    /\ UNCHANGED <<stdSchema, validation, request, apiReply,
                   standardizedSchema, phase2Calls, response, samples,
                   inferredSchema, inferredCollection, nativeType, analyzedSchema,
                   cycles, sanVars, intelVars, coreVars>>

SqlToMongoType ==
    /\ pc = "types_core_done"
    /\ mappedType' = [mappedType EXCEPT !.backend = sqlToMongoType(nativeType)]
    /\ pc' = "types_done"
    /\ UNCHANGED <<stdSchema, validation, request, apiReply,
                   standardizedSchema, phase2Calls, response, samples,
                   inferredSchema, inferredCollection, nativeType, analyzedSchema,
                   cycles, sanVars, intelVars, coreVars>>

\* C18: a native type name that no mapping rule recognizes is mapped to the
\* string type, by the core mapping and by the backend mapping.
C18_UnrecognizedTypeBecomesString ==
    LET \* the words the rules of mapSqlToNoSql look for
        CoreRuleWords ==
            {<<"I","N","T">>, <<"S","E","R","I","A","L">>,
             <<"V","A","R","C","H","A","R">>, <<"C","H","A","R">>,
             <<"T","E","X","T">>, <<"B","O","O","L">>, <<"D","A","T","E">>,
             <<"T","I","M","E">>, <<"D","E","C","I","M","A","L">>,
             <<"F","L","O","A","T">>, <<"D","O","U","B","L","E">>,
             <<"N","U","M","E","R","I","C">>, <<"J","S","O","N">>,
             <<"J","S","O","N","B">>, <<"B","L","O","B">>,
             <<"B","I","N","A","R","Y">>}
        RecognizedByCore ==
            \E word \in CoreRuleWords : includes(toUpperCase(nativeType), word)
        RecognizedByBackend == sqlToMongoTypeMap(normalizeSqlType(nativeType)) # <<>>
    IN  /\ pc \in {"types_core_done", "types_done"} /\ ~RecognizedByCore
           => mappedType.core = "string"
        /\ pc = "types_done" /\ ~RecognizedByBackend
           => mappedType.backend = "string"

(***************************************************************************)
(* Specification SpecBackend: one call of one operation of the backend or  *)
(* of the core inference: validateStandardizedSchema on a drawn schema of  *)
(* at most two tables and one relationship; one request to the two-phase   *)
(* convert route; one request to the direct convert route; both inference  *)
(* functions on up to MaxSamples sample records; one native type name      *)
(* through both type mappings.                                             *)
(***************************************************************************)
(***************************************************************************)
(* routes/analyze.ts: detectCircularDependencies under SpecBackend.  A     *)
(* table of the analysed schema is [name, foreignKeys], a foreign key the  *)
(* name of its referenced table; a reported cycle is the sequence of the   *)
(* names that the code joins with ' -> '.                                  *)
(***************************************************************************)
\* detectCircularDependencies whose dfs does not add the node it enters to
\* recursionStack
detectCircularDependencies_NoStack(tables) ==
    LET neighborsOf(node) ==
            Distinct(Flatten([i \in 1..Len(tables) |->
                IF tables[i].name = node THEN tables[i].foreignKeys ELSE <<>>]))
        indexOf(path, node) == CHOOSE i \in 1..Len(path) :
                                  /\ path[i] = node
                                  /\ \A j \in 1..(i-1) : path[j] # node
        RECURSIVE dfs(_, _, _), each(_, _, _)
        dfs(node, path, st) ==
            LET entered == [st EXCEPT !.visited = @ \cup {node}]
                after == each(Append(path, node), neighborsOf(node), entered)
            IN  [after EXCEPT !.recursionStack = @ \ {node}]
        each(path, neighbors, st) ==
            IF neighbors = <<>> THEN st
            ELSE LET neighbor == Head(neighbors)
                     cycle == Append(SubSeq(path, indexOf(path, neighbor), Len(path)),
                                     neighbor)
                 IN  each(path, Tail(neighbors),
                        IF neighbor \notin st.visited THEN dfs(neighbor, path, st)
                        ELSE IF neighbor \in st.recursionStack
                        THEN (IF InSeq(st.cycles, cycle) THEN st
                              ELSE [st EXCEPT !.cycles = Append(@, cycle)])
                        ELSE st)
        RECURSIVE roots(_, _)
        roots(i, st) ==
            IF i > Len(tables) THEN st
            ELSE roots(i + 1, IF tables[i].name \notin st.visited
                              THEN dfs(tables[i].name, <<>>, st) ELSE st)
    IN  roots(1, [visited |-> {}, recursionStack |-> {}, cycles |-> <<>>]).cycles

\* detectCircularDependencies: graph maps each table name to the Set of the
\* tables its foreign keys reference (insertion order); visited,
\* recursionStack and cycles are the three collections the nested dfs shares
detectCircularDependencies(tables) ==
    LET neighborsOf(node) ==
            Distinct(Flatten([i \in 1..Len(tables) |->
                IF tables[i].name = node THEN tables[i].foreignKeys ELSE <<>>]))
        indexOf(path, node) == CHOOSE i \in 1..Len(path) :
                                  /\ path[i] = node
                                  /\ \A j \in 1..(i-1) : path[j] # node
        RECURSIVE dfs(_, _, _), each(_, _, _)
        dfs(node, path, st) ==
            LET entered == [st EXCEPT !.visited = @ \cup {node},
                                      !.recursionStack = @ \cup {node}]
                after == each(Append(path, node), neighborsOf(node), entered)
            IN  [after EXCEPT !.recursionStack = @ \ {node}]
        each(path, neighbors, st) ==
            IF neighbors = <<>> THEN st
            ELSE LET neighbor == Head(neighbors)
                     cycle == Append(SubSeq(path, indexOf(path, neighbor), Len(path)),
                                     neighbor)
                 IN  each(path, Tail(neighbors),
                        IF neighbor \notin st.visited THEN dfs(neighbor, path, st)
                        ELSE IF neighbor \in st.recursionStack
                        THEN (IF InSeq(st.cycles, cycle) THEN st
                              ELSE [st EXCEPT !.cycles = Append(@, cycle)])
                        ELSE st)
        RECURSIVE roots(_, _)
        roots(i, st) ==
            IF i > Len(tables) THEN st
            ELSE roots(i + 1, IF tables[i].name \notin st.visited
                              THEN dfs(tables[i].name, <<>>, st) ELSE st)
    IN  roots(1, [visited |-> {}, recursionStack |-> {}, cycles |-> <<>>]).cycles

DetectCircularDependencies ==
    /\ pc = "analyze_start"
    /\ cycles' = detectCircularDependencies(analyzedSchema)
    /\ pc' = "analyze_done"
    /\ UNCHANGED <<stdSchema, validation, request, apiReply, standardizedSchema,
                   phase2Calls, response, samples, inferredSchema,
                   inferredCollection, nativeType, mappedType, analyzedSchema,
                   sanVars, intelVars, coreVars>>

InitBackend ==
    \/ /\ pc = "validate_start"
       /\ Idle("validate")
       /\ validation = <<>>
       /\ \E version \in {"", "1.0"}, hasMetadata \in BOOLEAN, hasTables \in BOOLEAN,
             hasRelationships \in BOOLEAN,
             names \in UNION {[1..k -> {"", "users", "user_roles"}] : k \in 0..2},
             firstType \in {"", "integer"},
             fkCount \in 1..MaxJunctionFks,
             rels \in {<<>>} \cup {<<r>> : r \in [id : {"", "r1"},
             type : {"one_to_many", "many_to_many", "many_to_one"},
             from : [table : {"", "users", "roles"}, columns : {<<"id">>}],
             to : [table : {"users", "user_roles", "roles"}, columns : {<<"id">>}],
             metadata : [junctionTable : {"", "user_roles", "roles"}]]} :
             /\ hasTables \/ names = <<>>
             /\ hasRelationships \/ rels = <<>>
             /\ stdSchema =
                  [version |-> version,
                   hasMetadata |-> hasMetadata,
                   metadata |-> [sourceType |-> "mysql", extractedAt |-> "2024-01-01"],
                   hasTables |-> hasTables,
                   tables |-> [i \in 1..Len(names) |->
                                 StdTable(names[i], IF i = 1 THEN firstType ELSE "integer",
                                          fkCount)],
                   hasRelationships |-> hasRelationships,
                   relationships |-> rels]
    \/ /\ \/ /\ pc = "convert_start"
             /\ request \in [input : {"", "CREATE TABLE users"},
                             sourceType : {"", "sql", "mongodb"},
                             targetType : {"", "sql", "nosql", "mysql", "json"},
                             dialect : {"", "mysql", "sqlite"}]
          \/ /\ pc = "legacy_start"
             /\ request \in [input : {"", "ddl_text", "json_text", "object"},
                             sourceType : {"", "sql", "nosql", "json"},
                             targetType : {"", "sql", "nosql", "json"},
                             dialect : {"", "mysql", "postgresql"}]
       /\ Idle("route")
       /\ apiReply = <<>>
       /\ standardizedSchema = <<>>
       /\ phase2Calls = 0
       /\ response = <<>>
    \/ /\ pc = "infer_start"
       /\ Idle("infer")
       /\ samples \in UNION {[1..k -> RecordPool] : k \in 0..MaxSamples}
       /\ inferredSchema = <<>>
       /\ inferredCollection = <<>>
    \/ /\ pc = "types_start"
       /\ Idle("types")
       /\ nativeType \in NativeTypePool
       /\ mappedType = [core |-> "", backend |-> ""]
    \/ /\ pc = "analyze_start"
       /\ Idle("analyze")
       /\ cycles = <<>>
       /\ \E n \in 1..MaxTables :
          \E targets \in [1..n -> SUBSET {"a", "b", "c", "d"}] :
             analyzedSchema =
                [i \in 1..n |->
                    [name |-> <<"a", "b", "c", "d">>[i],
                     foreignKeys |-> SelectSeq(<<"d", "c", "b", "a">>,
                                               LAMBDA t : t \in targets[i])]]

NextBackend ==
    \/ ValidateStandardizedSchema
    \/ ReceiveRequest
    \/ ResumeAfterParse
    \/ LegacyConvert
    \/ InferSchemaFromJson
    \/ InferSchemaFromData
    \/ MapSqlToNoSql
    \/ SqlToMongoType
    \/ DetectCircularDependencies

SpecBackend == InitBackend /\ [][NextBackend]_vars

C20_EmbeddedFieldShape ==
    LET PlannedRelationships ==
            {r \in 1..Len(relationships) : relationships[r].fromTable \notin junctionTables}
        \* the fields of a collection that have the given type
        EmbeddedFields(coll, type) ==
            {i \in 1..Len(coll.fields) : coll.fields[i].type = type}
        \* a plural name: singularize changes it
        IsPluralized(name) == singularize(name) # name
    IN  (pc = "intel_done") =>
            \A p \in ForeignKeyPositions :
                LET table == schema[p[1]]
                    fk == table.foreignKeys[p[2]]
                IN  \A r \in RecordsFor(table, fk) \cap PlannedRelationships :
                        (relationships[r].shouldEmbed /\ PlainForeignKeyColumn(table, fk)) =>
                            \A c \in CollectionsOf(table) :
                                IF relationships[r].type = "1:1"
                                THEN /\ Cardinality(EmbeddedFields(collections[c], "object")) = 1
                                     /\ \A i \in EmbeddedFields(collections[c], "object") :
                                           collections[c].fields[i].name
                                               = toCamelCase(singularize(fk.referencedTable))
                                ELSE /\ Cardinality(EmbeddedFields(collections[c], "array")) = 1
                                     /\ \A i \in EmbeddedFields(collections[c], "array") :
                                           IsPluralized(collections[c].fields[i].name)

(***************************************************************************)
(* Properties of the relational generation (SpecCore)                      *)
(***************************************************************************)
\* C21: every object-typed or array-typed field of a collection is kept by
\* convertNoSqlToSql: with normalizeDepth >= 1 the result has a child table
\* for it, with the surrogate primary key id and a foreign key back to the
\* parent table; with normalizeDepth 0 the parent table has a column for the
\* field and the result carries a warning.
C21_NestedFieldKept ==
    (pc \in {"core_sql", "core_done"} /\ noSqlSchema # <<>>) =>
        \A c \in 1..Len(noSqlSchema) :
            LET collection == noSqlSchema[c]
                parent == convertCollectionToTable(collection,
                              conversionOptions.dialect, conversionOptions)
                Named(name) == {t \in 1..Len(sqlResult.tables) :
                                   sqlResult.tables[t].name = name}
            IN  \A f \in 1..Len(collection.fields) :
                   LET field == collection.fields[f]
                   IN  IsNestedField(field) =>
                         IF conversionOptions.normalizeDepth >= 1
                         THEN \E t \in Named(sanitizeIdentifier(
                                         parent.name \o <<"_">> \o field.name)) :
                                 /\ sqlResult.tables[t].primaryKeys = <<<<"i","d">>>>
                                 /\ \E k \in 1..Len(sqlResult.tables[t].foreignKeys) :
                                       sqlResult.tables[t].foreignKeys[k].references.table
                                           = parent.name
                         ELSE /\ \E t \in Named(parent.name) :
                                    HasName(sqlResult.tables[t].columns,
                                        ColumnNameOf(field.name,
                                            conversionOptions.preserveCase))
                              /\ Len(sqlResult.warnings) > 0

\* C22: for a dialect without a native JSON type (sqlite, mssql) every
\* object-typed and every array-typed field that gets a column gets a TEXT
\* column, and the result carries a warning.
C22_NoJsonDialectFallsBackToText ==
    (/\ pc \in {"core_sql", "core_done"} /\ noSqlSchema # <<>>
     /\ conversionOptions.dialect \in {"sqlite", "mssql"}) =>
        \A c \in 1..Len(noSqlSchema) :
            LET collection == noSqlSchema[c]
                table == sqlResult.tables[CHOOSE t \in 1..Len(sqlResult.tables) :
                            sqlResult.tables[t].name =
                               convertCollectionToTable(collection,
                                   conversionOptions.dialect, conversionOptions).name]
            IN  \A f \in 1..Len(collection.fields) :
                   LET field == collection.fields[f]
                       name == ColumnNameOf(field.name, conversionOptions.preserveCase)
                   IN  (IsNestedField(field) /\ HasName(table.columns, name)) =>
                          /\ \A k \in 1..Len(table.columns) :
                                table.columns[k].name = name =>
                                   table.columns[k].type = SqlType(<<"T","E","X","T">>, <<>>, <<>>)
                          /\ Len(sqlResult.warnings) > 0

\* C23: in every collection that convertSqlToNoSql generates, every unique
\* field other than _id (which the database indexes by itself) has a unique
\* index on it and every field that carries a reference has an index on it.
C23_UniqueAndReferenceFieldsIndexed ==
    (pc = "core_done" /\ noSqlResult.success) =>
        \A c \in 1..Len(noSqlResult.schema) :
            LET collection == noSqlResult.schema[c]
                IndexOn(name, uniqueOnly) ==
                    \E i \in 1..Len(collection.indexes) :
                        /\ collection.indexes[i].fields = <<name>>
                        /\ uniqueOnly => collection.indexes[i].unique
            IN  \A f \in 1..Len(collection.fields) :
                   LET field == collection.fields[f]
                   IN  /\ (field.unique /\ field.name # <<"_","i","d">>)
                            => IndexOn(field.name, TRUE)
                       /\ field.ref # NoRef => IndexOn(field.name, FALSE)

\* C24: in the tables convertNoSqlToSql generates from a document schema
\* whose references all name collections of the schema, the column of every
\* foreign key is a column of its table, and the referenced table is a
\* generated table that has the referenced column; the back-references of
\* the child tables are foreign keys like the others.
C24_ForeignKeysResolve ==
    (/\ pc \in {"core_sql", "core_done"} /\ noSqlSchema # <<>>
     /\ \A c \in 1..Len(noSqlSchema) :
           \A f \in 1..Len(noSqlSchema[c].fields) :
              noSqlSchema[c].fields[f].ref # NoRef =>
                 HasName(noSqlSchema, noSqlSchema[c].fields[f].ref)) =>
        \A t \in 1..Len(sqlResult.tables) :
            \A k \in 1..Len(sqlResult.tables[t].foreignKeys) :
                LET fk == sqlResult.tables[t].foreignKeys[k]
                IN  /\ HasName(sqlResult.tables[t].columns, fk.column)
                    /\ \E u \in 1..Len(sqlResult.tables) :
                          /\ sqlResult.tables[u].name = fk.references.table
                          /\ HasName(sqlResult.tables[u].columns, fk.references.column)

\* C25: for every dialect, the column that convertNoSqlToSql generates
\* (through mapNoSqlToSql) for an objectId-typed field other than _id has
\* the type VARCHAR(24).
C25_ObjectIdBecomesVarchar24 ==
    (pc \in {"core_sql", "core_done"} /\ noSqlSchema # <<>>) =>
        \A c \in 1..Len(noSqlSchema) :
            \A f \in 1..Len(noSqlSchema[c].fields) :
                LET field == noSqlSchema[c].fields[f]
                    name == ColumnNameOf(field.name, conversionOptions.preserveCase)
                    table == sqlResult.tables[c]
                IN  (field.type = "objectId" /\ field.name # <<"_","i","d">>) =>
                       \A k \in 1..Len(table.columns) :
                          table.columns[k].name = name =>
                             table.columns[k].type =
                                SqlType(<<"V","A","R","C","H","A","R">>, <<"(","2","4",")">>, <<>>)

\* C28: no table that convertNoSqlToSql generates has two columns with the
\* same name, whatever the fields of the collection and the options.
C28_NoDuplicateColumns ==
    (pc \in {"core_sql", "core_done"} /\ noSqlSchema # <<>>) =>
        \A t \in 1..Len(sqlResult.tables) :
            \A i, j \in 1..Len(sqlResult.tables[t].columns) :
                i # j => sqlResult.tables[t].columns[i].name
                            # sqlResult.tables[t].columns[j].name

C29_FailureIsAResult ==
    LET WellFormed(result, emptySchema) ==
            IF result.success THEN result.errors = <<>>
            ELSE Len(result.errors) > 0 /\ result.schema = emptySchema
        emptyText == [tables |-> <<>>, indexes |-> <<>>]
    IN  /\ (pc \in {"core_sql", "core_done"} /\ noSqlSchema # <<>>) =>
              /\ WellFormed(sqlResult, emptyText)
              /\ (\E c \in 1..Len(noSqlSchema) : ~noSqlSchema[c].hasFields)
                    => ~sqlResult.success
        /\ pc = "core_json_done" =>
              /\ WellFormed(sqlResult, emptyText)
              /\ Len(jsonData.items) = 0 => ~sqlResult.success
              /\ (/\ \E i \in 1..Len(jsonData.items) : jsonData.items[i].isNull
                  /\ \E i \in 1..Len(jsonData.items) : jsonData.items[i].entries # <<>>)
                    => ~sqlResult.success
        /\ pc = "core_done" =>
              /\ WellFormed(noSqlResult, <<>>)
              /\ Len(sqlSchema.tables) = 0 => ~noSqlResult.success

\* the document schema had a collection without fields, convertNoSqlToSql
\* returned a failure result with the empty text, and convertSqlToNoSql,
\* given that text, returned a failure result as well
C29_Witness ==
    /\ pc = "core_done"
    /\ noSqlSchema # <<>>
    /\ ~sqlResult.success /\ Len(sqlResult.errors) > 0
    /\ ~noSqlResult.success /\ Len(noSqlResult.errors) > 0

(***************************************************************************)
(* Properties of the schema analysis (SpecBackend)                         *)
(***************************************************************************)
\* C30: detectCircularDependencies returns, and its list is non-empty
\* exactly when the foreign-key graph of the schema has a directed cycle, a
\* table that references itself being one; every entry of the list is a
\* closed walk along foreign keys of the graph.
C30_CyclesExactlyWhenCyclic ==
    (pc = "analyze_done") =>
        LET edges == UNION {{<<analyzedSchema[i].name, analyzedSchema[i].foreignKeys[k]>> :
                               k \in 1..Len(analyzedSchema[i].foreignKeys)} :
                            i \in 1..Len(analyzedSchema)}
            nodes == {e[1] : e \in edges} \cup {e[2] : e \in edges}
            RECURSIVE closure(_, _)
            closure(rel, k) ==
                IF k = 0 THEN rel
                ELSE closure(rel \cup {<<x, z>> \in nodes \X nodes :
                                          \E y \in nodes : <<x, y>> \in rel /\ <<y, z>> \in rel},
                             k - 1)
            cyclic == \E x \in nodes : <<x, x>> \in closure(edges, Cardinality(nodes))
            IsCycle(entry) ==
                /\ Len(entry) >= 2
                /\ entry[1] = entry[Len(entry)]
                /\ \A i \in 1..(Len(entry) - 1) : <<entry[i], entry[i + 1]>> \in edges
        IN  /\ (cycles # <<>>) <=> cyclic
            /\ \A c \in 1..Len(cycles) : IsCycle(cycles[c])

\* a schema whose only cycle is a table referencing itself, reached from
\* another table, has been analysed and the cycle reported
C30_Witness ==
    /\ pc = "analyze_done"
    /\ Len(analyzedSchema) >= 2
    /\ analyzedSchema[1].foreignKeys = <<"b">>
    /\ analyzedSchema[2].foreignKeys = <<"b">>
    /\ cycles = <<<<"b", "b">>>>

====
